---- MODULE Spec2Model ----
(***************************************************************************)
(* Model of the document anonymization engine of bank_rm_demo              *)
(* (src/anonymization/pii_anonymizer.py): the placeholder registry, the    *)
(* pattern detector with its five regular expressions, the entity detector *)
(* adapter, the span resolver, the text, XML and JSON walkers, the         *)
(* document entry points and the cached loader of the recognizer.          *)
(*                                                                         *)
(* Text is a TLA+ string.  Python's half-open slice text[a:b] (0-based) is *)
(* SubSeq(text, a + 1, b).                                                 *)
(***************************************************************************)
EXTENDS Integers, Sequences, FiniteSets, TLC

VARIABLES
    text,       \* the text unit being anonymized
    manager,    \* the PlaceholderManager: [counters, lookup]
    spans,      \* the span list built by the detectors, in list order
    log,        \* one record per regex candidate examined by gather_regex_spans
    output,     \* the string returned by apply_spans
    pc,         \* position of the text walker / of the component under test
    history,    \* the PlaceholderManager.get calls made so far, with their results
    heap,       \* the PlaceholderManager objects created by the entry points, by identity
    procs,      \* the running calls of an entry point (or threads), one record each
    recognizer, \* the entity-recognition capability: what ner_pipeline(text) does
    cache       \* the lru_cache of load_ner_pipeline and the constructor runs so far

unitvars == <<text, manager, spans, log, output, pc, history>>

procvars == <<heap, procs, recognizer, cache>>

vars == <<text, manager, spans, log, output, pc, history, heap, procs, recognizer, cache>>

(***************************************************************************)
(* Bounds of the model.                                                    *)
(***************************************************************************)
MaxFrags == 2      \* a text unit is the concatenation of at most MaxFrags fragments
MaxEnt == 1        \* entities returned by one call of the recognizer
MaxCalls == 4      \* get calls on the stand-alone registry
MaxLen == 4        \* length of the text handed to the stand-alone span resolver
MaxSpans == 3      \* spans handed to the stand-alone span resolver
MaxItems == 2      \* items of a list, a dict or the root element of a document
MaxThreads == 2    \* threads calling load_ner_pipeline
MaxLoads == 2      \* calls of load_ner_pipeline by one thread
MaxCallers == 2    \* calls of anonymize_document in progress at once

(***************************************************************************)
(* Characters and character classes of Python's re (ASCII part).           *)
(***************************************************************************)
Digits == {"0", "1", "2", "3", "4", "5", "6", "7", "8", "9"}

Lower == {"a", "b", "c", "d", "e", "f", "g", "h", "i", "j", "k", "l", "m",
          "n", "o", "p", "q", "r", "s", "t", "u", "v", "w", "x", "y", "z"}

Upper == {"A", "B", "C", "D", "E", "F", "G", "H", "I", "J", "K", "L", "M",
          "N", "O", "P", "Q", "R", "S", "T", "U", "V", "W", "X", "Y", "Z"}

Letters == Lower \cup Upper

\* \w
WordChars == Letters \cup Digits \cup {"_"}

\* \s
Whitespace == {" ", "\t", "\n", "\r", "\f"}

\* text[i] for a 0-based index i; "" outside the string
CharAt(s, i) == IF i >= 0 /\ i < Len(s) THEN SubSeq(s, i + 1, i + 1) ELSE ""

\* a slice index as Python normalises it: negative counts from the end, then
\* clamped to 0..len
SliceIndex(s, a) ==
    LET n == Len(s)
        b == IF a < 0 THEN a + n ELSE a
    IN  IF b < 0 THEN 0 ELSE IF b > n THEN n ELSE b

\* text[a:b]
Slice(s, a, b) ==
    LET lo == SliceIndex(s, a)
        hi == SliceIndex(s, b)
    IN  IF lo >= hi THEN "" ELSE SubSeq(s, lo + 1, hi)

\* \b at offset i: exactly one of the two neighbours is a word character
WordBoundary(s, i) == (CharAt(s, i - 1) \in WordChars) # (CharAt(s, i) \in WordChars)

(***************************************************************************)
(* Regular expressions as trees, and a backtracking matcher.               *)
(*   Cls(S)        one character of the set S                              *)
(*   Cat(<<..>>)   concatenation                                           *)
(*   Alt(<<..>>)   alternation, leftmost alternative first                 *)
(*   Rep(r, a, b)  greedy r{a,b}                                           *)
(*   WB            \b                                                      *)
(*   NotAhead(r)   (?!r)                                                   *)
(* Ends(r, s, i) is the list of offsets at which a match of r starting at  *)
(* offset i of s can end, in the order in which backtracking tries them,   *)
(* each offset listed once.  None of the patterns below keeps state        *)
(* between its parts (the one back-reference is expanded into the two      *)
(* values its group can take), so what follows an offset never depends on  *)
(* how the offset was reached and the first entry is re's match.           *)
(***************************************************************************)
Cls(S) == [t |-> "cls", set |-> S]
Cat(rs) == [t |-> "cat", items |-> rs]
Alt(rs) == [t |-> "alt", items |-> rs]
Rep(r, a, b) == [t |-> "rep", r |-> r, min |-> a, max |-> b]
WB == [t |-> "wb"]
NotAhead(r) == [t |-> "nla", r |-> r]
Lit(c) == Cls({c})
Opt(r) == Rep(r, 0, 1)

\* stands for "no upper limit": no text of the model is this long
Unbounded == 64

\* xs followed by the entries of ys that are not yet listed
AppendNew(xs, ys) ==
    xs \o SelectSeq(ys, LAMBDA y : \A k \in 1..Len(xs) : xs[k] # y)

RECURSIVE Ends(_, _, _), EndsFromAll(_, _, _), EndsCat(_, _, _, _), EndsAlt(_, _, _, _),
          EndsTimes(_, _, _, _), EndsUpTo(_, _, _, _)

\* the ends of r started at each offset of the list `from`, in order (in a long
\* list the offsets at which r does not match, which contribute nothing, are
\* dropped first: that keeps the evaluation shallow and changes no result)
EndsFromAll(r, s, from) ==
    LET RECURSIVE Collect(_)
        Collect(js) == IF js = <<>> THEN <<>>
                       ELSE AppendNew(Ends(r, s, Head(js)), Collect(Tail(js)))
    IN  IF Len(from) <= 4 THEN Collect(from)
        ELSE Collect(SelectSeq(from, LAMBDA p : Ends(r, s, p) # <<>>))

EndsCat(items, k, s, from) ==
    IF k > Len(items) \/ from = <<>> THEN from
    ELSE EndsCat(items, k + 1, s, EndsFromAll(items[k], s, from))

EndsAlt(items, k, s, i) ==
    IF k > Len(items) THEN <<>>
    ELSE AppendNew(Ends(items[k], s, i), EndsAlt(items, k + 1, s, i))

\* r exactly n times, started at each offset of `from`
EndsTimes(r, n, s, from) ==
    IF n = 0 \/ from = <<>> THEN from
    ELSE EndsTimes(r, n - 1, s, EndsFromAll(r, s, from))

\* greedy r{0,n} started at i: one more round of r is tried before stopping at i
\* (a round that consumes nothing is not repeated)
EndsUpTo(r, n, s, i) ==
    IF n = 0 THEN <<i>>
    ELSE LET once == SelectSeq(Ends(r, s, i), LAMBDA j : j # i)
             RECURSIVE More(_)
             More(js) == IF js = <<>> THEN <<>>
                         ELSE AppendNew(EndsUpTo(r, n - 1, s, Head(js)), More(Tail(js)))
         IN  AppendNew(More(once), <<i>>)

\* the number of characters of the set S that follow offset i, counted up to n
Run(S, s, i, n) ==
    LET cap == IF Len(s) - i < n THEN Len(s) - i ELSE n
    IN  CHOOSE m \in 0..cap :
            /\ \A j \in 0..(m - 1) : CharAt(s, i + j) \in S
            /\ m = cap \/ CharAt(s, i + m) \notin S

\* greedy r{min,max}: r{min} followed by greedy r{0,max-min}.  When r is one
\* character class every round consumes one character, so the ends are the run
\* lengths from the longest allowed down to min.
EndsRep(r, min, max, s, i) ==
    IF r.t = "cls"
    THEN LET m == Run(r.set, s, i, max)
         IN  IF m < min THEN <<>> ELSE [k \in 1..(m - min + 1) |-> i + m - (k - 1)]
    ELSE LET RECURSIVE Rest(_)
             Rest(js) == IF js = <<>> THEN <<>>
                         ELSE AppendNew(EndsUpTo(r, max - min, s, Head(js)), Rest(Tail(js)))
         IN  Rest(EndsTimes(r, min, s, <<i>>))

Ends(r, s, i) ==
    CASE r.t = "cls" -> IF CharAt(s, i) \in r.set THEN <<i + 1>> ELSE <<>>
      [] r.t = "wb"  -> IF WordBoundary(s, i) THEN <<i>> ELSE <<>>
      [] r.t = "nla" -> IF Ends(r.r, s, i) = <<>> THEN <<i>> ELSE <<>>
      [] r.t = "cat" -> EndsCat(r.items, 1, s, <<i>>)
      [] r.t = "alt" -> EndsAlt(r.items, 1, s, i)
      [] r.t = "rep" -> EndsRep(r.r, r.min, r.max, s, i)

RECURSIVE FindFrom(_, _, _)
\* the matches (start, end) found from offset pos on: the leftmost offset at which
\* the pattern matches, then the search resumed where that match ended
FindFrom(r, s, pos) ==
    LET starts == {p \in pos..Len(s) : Ends(r, s, p) # <<>>}
    IN  IF starts = {} THEN <<>>
        ELSE LET p == CHOOSE q \in starts : \A q2 \in starts : q <= q2
                 e == Ends(r, s, p)[1]
             IN  <<[start |-> p, end |-> e]>> \o FindFrom(r, s, IF e > p THEN e ELSE p + 1)

\* pattern.finditer(text)
finditer(r, s) == FindFrom(r, s, 0)

(***************************************************************************)
(* PII_REGEXES, in declaration order.                                      *)
(***************************************************************************)
D == Cls(Digits)
DN(a, b) == Rep(D, a, b)
Dash == Lit("-")
DashOrSpace == Cls({"-", " "})
DashOrWhitespace == Cls({"-"} \cup Whitespace)

\* \b\d{3}-\d{2}-\d{4}\b
SSN_RE == Cat(<<WB, DN(3, 3), Dash, DN(2, 2), Dash, DN(4, 4), WB>>)

\* \b(?:\d[ -]?){13,16}\b
CREDIT_CARD_RE == Cat(<<WB, Rep(Cat(<<D, Opt(DashOrSpace)>>), 13, 16), WB>>)

\* \b[a-zA-Z0-9._%+-]+@[a-zA-Z0-9.-]+\.[a-zA-Z]{2,}\b
EMAIL_RE ==
    Cat(<<WB,
          Rep(Cls(Letters \cup Digits \cup {".", "_", "%", "+", "-"}), 1, Unbounded),
          Lit("@"),
          Rep(Cls(Letters \cup Digits \cup {".", "-"}), 1, Unbounded),
          Lit("."),
          Rep(Cls(Letters), 2, Unbounded),
          WB>>)

\* \d{4}([- ])\d{4}\1\d{4}\1\d{4}\b with \1 bound to c
FourGroups(c) == Cat(<<DN(4, 4), Lit(c), DN(4, 4), Lit(c), DN(4, 4), Lit(c), DN(4, 4), WB>>)

\* \b(?!\d{4}([- ])\d{4}\1\d{4}\1\d{4}\b)(?!\d{15,16}\b)
\*   (?:\+?\d{1,3}[-\s]?)?(?:\(?\d{2,4}\)?[-\s]?){2,3}\d{3,4}\b
PHONE_RE ==
    Cat(<<WB,
          NotAhead(Alt(<<FourGroups("-"), FourGroups(" ")>>)),
          NotAhead(Cat(<<DN(15, 16), WB>>)),
          Opt(Cat(<<Opt(Lit("+")), DN(1, 3), Opt(DashOrWhitespace)>>)),
          Rep(Cat(<<Opt(Lit("(")), DN(2, 4), Opt(Lit(")")), Opt(DashOrWhitespace)>>), 2, 3),
          DN(3, 4),
          WB>>)

\* \b\d{4}-\d{2}-\d{2}\b
DOB_RE == Cat(<<WB, DN(4, 4), Dash, DN(2, 2), Dash, DN(2, 2), WB>>)

PII_REGEXES ==
    <<[label |-> "SSN", pattern |-> SSN_RE],
      [label |-> "CREDIT_CARD", pattern |-> CREDIT_CARD_RE],
      [label |-> "EMAIL", pattern |-> EMAIL_RE],
      [label |-> "PHONE", pattern |-> PHONE_RE],
      [label |-> "DOB", pattern |-> DOB_RE]>>

(***************************************************************************)
(* LABEL_MAP and str.upper.                                                *)
(***************************************************************************)
LowerSeq == "abcdefghijklmnopqrstuvwxyz"
UpperSeq == "ABCDEFGHIJKLMNOPQRSTUVWXYZ"

RECURSIVE upper(_)
\* str.upper on ASCII text
upper(s) ==
    IF s = "" THEN ""
    ELSE LET c == CharAt(s, 0)
             u == IF c \in Lower
                  THEN CharAt(UpperSeq, (CHOOSE k \in 0..25 : CharAt(LowerSeq, k) = c))
                  ELSE c
         IN  u \o upper(Slice(s, 1, Len(s)))

LABEL_MAP_keys == {"PER", "ORG", "LOC", "MISC"}

LABEL_MAP(k) ==
    CASE k = "PER" -> "PERSON"
      [] k = "ORG" -> "ORGANIZATION"
      [] k = "LOC" -> "LOCATION"
      [] k = "MISC" -> "MISC"

(***************************************************************************)
(* PlaceholderManager.  counters is the defaultdict(int): a function whose *)
(* domain is the set of labels counted so far.  lookup is the dict, kept   *)
(* as the list of its (key, placeholder) entries in insertion order.       *)
(***************************************************************************)
PlaceholderManager == [counters |-> <<>>, lookup |-> <<>>]

\* key in self.lookup
HasKey(lookup, key) == \E k \in 1..Len(lookup) : lookup[k].key = key

\* self.lookup[key]
LookupValue(lookup, key) == lookup[CHOOSE k \in 1..Len(lookup) : lookup[k].key = key].ph

\* self.counters[label], 0 for a label not counted yet
Counter(counters, label) == IF label \in DOMAIN counters THEN counters[label] ELSE 0

\* f"[{label}_{n}]"
FormatPlaceholder(label, n) == "[" \o label \o "_" \o ToString(n) \o "]"
\* mutant of Increment: the counter is set to 1 (= 1 for += 1)
Increment_SetOne(counters, label) ==
    [l \in (DOMAIN counters) \cup {label} |-> IF l = label THEN 1 ELSE counters[l]]

\* the counter increment of get: self.counters[label] += 1
Increment(counters, label) ==
    [l \in (DOMAIN counters) \cup {label} |->
        IF l = label THEN Counter(counters, label) + 1 ELSE counters[l]]

\* mutant of get: the counter of the label moves on every call
get_CountsEveryCall(m, label, value) ==
    LET key == <<label, value>>
        counters == Increment(m.counters, label)
    IN  IF HasKey(m.lookup, key)
        THEN [manager |-> [m EXCEPT !.counters = counters], ret |-> LookupValue(m.lookup, key)]
        ELSE LET ph == FormatPlaceholder(label, counters[label])
             IN  [manager |-> [counters |-> counters,
                               lookup |-> Append(m.lookup, [key |-> key, ph |-> ph])],
                  ret |-> ph]

\* mutant of get: the lookup table holds two entries at most; a third evicts
\* the oldest
get_EvictsOldest(m, label, value) ==
    LET key == <<label, value>>
    IN  IF HasKey(m.lookup, key)
        THEN [manager |-> m, ret |-> LookupValue(m.lookup, key)]
        ELSE LET counters == Increment(m.counters, label)
                 ph == FormatPlaceholder(label, counters[label])
                 kept == IF Len(m.lookup) >= 2 THEN Tail(m.lookup) ELSE m.lookup
             IN  [manager |-> [counters |-> counters,
                               lookup |-> Append(kept, [key |-> key, ph |-> ph])],
                  ret |-> ph]

\* PlaceholderManager.get: the manager after the call and the string returned
get(m, label, value) ==
    LET key == <<label, value>>
    IN  IF HasKey(m.lookup, key)
        THEN [manager |-> m, ret |-> LookupValue(m.lookup, key)]
        ELSE LET counters == Increment(m.counters, label)
                 ph == FormatPlaceholder(label, counters[label])
             IN  [manager |-> [counters |-> counters,
                               lookup |-> Append(m.lookup, [key |-> key, ph |-> ph])],
                  ret |-> ph]

\* mutant of items: the pairs are listed newest first
items_NewestFirst(m) == [k \in 1..Len(m.lookup) |-> m.lookup[Len(m.lookup) + 1 - k]]

\* PlaceholderManager.items
items(m) == m.lookup

(***************************************************************************)
(* gather_regex_spans.                                                     *)
(***************************************************************************)
RECURSIVE CandidatesFrom(_, _)
\* the (label, match) pairs in the order the two nested loops visit them
CandidatesFrom(s, k) ==
    IF k > Len(PII_REGEXES) THEN <<>>
    ELSE LET ms == finditer(PII_REGEXES[k].pattern, s)
         IN  [j \in 1..Len(ms) |-> [label |-> PII_REGEXES[k].label,
                                    start |-> ms[j].start, end |-> ms[j].end]]
             \o CandidatesFrom(s, k + 1)

\* sum(ch.isdigit() for ch in value)
DigitCount(value) == Cardinality({j \in 0..(Len(value) - 1) : CharAt(value, j) \in Digits})
\* mutant of PhoneDigitLimit: the limit is one too high
PhoneDigitLimit_Raised == 12 + 1

\* the digit count from which a PHONE candidate is rejected
PhoneDigitLimit == 12
\* mutant of Contained: strict inequalities
Contained_Strict(start, end, occupied) ==
    \E k \in 1..Len(occupied) : start > occupied[k][1] /\ end < occupied[k][2]

\* mutant of Contained: any overlap counts
Contained_Overlap(start, end, occupied) ==
    \E k \in 1..Len(occupied) : start < occupied[k][2] /\ occupied[k][1] < end

\* any(start >= s and end <= e for s, e in occupied)
Contained(start, end, occupied) ==
    \E k \in 1..Len(occupied) : start >= occupied[k][1] /\ end <= occupied[k][2]

\* one round of the inner loop on candidate c, from the loop state st
RegexStep(s, st, c) ==
    LET value == Slice(s, c.start, c.end)
        entry == [label |-> c.label, start |-> c.start, end |-> c.end, value |-> value]
    IN  IF Contained(c.start, c.end, st.occupied)
        THEN [st EXCEPT !.log = Append(@, entry @@ [verdict |-> "contained"])]
        ELSE IF c.label = "PHONE" /\ DigitCount(value) >= PhoneDigitLimit
        THEN [st EXCEPT !.log = Append(@, entry @@ [verdict |-> "digits"])]
        ELSE LET g == get(st.manager, c.label, value)
             IN  [manager |-> g.manager,
                  spans |-> Append(st.spans, [start |-> c.start, end |-> c.end, repl |-> g.ret]),
                  occupied |-> Append(st.occupied, <<c.start, c.end>>),
                  log |-> Append(st.log, entry @@ [verdict |-> "accepted"])]

RECURSIVE RegexLoop(_, _, _, _)
RegexLoop(s, st, cs, k) ==
    IF k > Len(cs) THEN st
    ELSE RegexLoop(s, RegexStep(s, st, cs[k]), cs, k + 1)

\* gather_regex_spans(text, manager): the spans returned, the manager after the
\* call, and the loop's record of every candidate with what became of it
gather_regex_spans(s, m) ==
    RegexLoop(s, [manager |-> m, spans |-> <<>>, occupied |-> <<>>, log |-> <<>>],
              CandidatesFrom(s, 1), 1)

(***************************************************************************)
(* gather_ner_spans.  The recognizer is a black box: `entities` is what    *)
(* ner_pipeline(text) returned, a list of [entity_group, start, end].      *)
(***************************************************************************)
\* LABEL_MAP.get(raw_label, raw_label or "ENTITY") with raw_label upper-cased
NerLabel(entity_group) ==
    LET raw_label == upper(entity_group)
    IN  IF raw_label \in LABEL_MAP_keys THEN LABEL_MAP(raw_label)
        ELSE IF raw_label = "" THEN "ENTITY" ELSE raw_label

RECURSIVE NerLoop(_, _, _, _)
NerLoop(s, st, entities, k) ==
    IF k > Len(entities) THEN st
    ELSE LET e == entities[k]
             g == get(st.manager, NerLabel(e.entity_group), Slice(s, e.start, e.end))
         IN  NerLoop(s, [manager |-> g.manager,
                         spans |-> Append(st.spans, [start |-> e.start, end |-> e.end, repl |-> g.ret])],
                     entities, k + 1)

gather_ner_spans(s, m, entities) == NerLoop(s, [manager |-> m, spans |-> <<>>], entities, 1)

(***************************************************************************)
(* apply_spans.                                                            *)
(***************************************************************************)
RECURSIVE Normalize_LastWins(_, _, _)
\* mutant of Normalize: a later span with the same key overwrites the entry
Normalize_LastWins(sp, k, acc) ==
    IF k > Len(sp) THEN acc
    ELSE Normalize_LastWins(sp, k + 1,
            IF \E j \in 1..Len(acc) : acc[j].start = sp[k].start /\ acc[j].end = sp[k].end
            THEN [j \in 1..Len(acc) |->
                    IF acc[j].start = sp[k].start /\ acc[j].end = sp[k].end THEN sp[k] ELSE acc[j]]
            ELSE Append(acc, sp[k]))

RECURSIVE Normalize(_, _, _)
\* the dict `normalized` as the list of its entries in insertion order: a span
\* whose (start, end) key is already present is passed over
Normalize(sp, k, acc) ==
    IF k > Len(sp) THEN acc
    ELSE Normalize(sp, k + 1,
                   IF \E j \in 1..Len(acc) : acc[j].start = sp[k].start /\ acc[j].end = sp[k].end
                   THEN acc ELSE Append(acc, sp[k]))

\* mutant of InsertByStart: the list is left in insertion order
InsertByStart_Unsorted(xs, x) == Append(xs, x)

\* x put into the list xs, sorted by start, behind every entry whose start is not greater
InsertByStart(xs, x) ==
    LET n == Cardinality({j \in 1..Len(xs) : xs[j].start <= x.start})
    IN  SubSeq(xs, 1, n) \o <<x>> \o SubSeq(xs, n + 1, Len(xs))

RECURSIVE SortByStart(_, _, _)
\* sorted(normalized.items(), key=lambda item: item[0][0]): stable, by start only
SortByStart(sp, k, acc) ==
    IF k > Len(sp) THEN acc ELSE SortByStart(sp, k + 1, InsertByStart(acc, sp[k]))
\* mutant of WalkStep: the overlap test is missing
WalkStep_NoSkip(s, w, x) ==
    [result |-> w.result \o <<Slice(s, w.cursor, x.start), x.repl>>,
     cursor |-> x.end,
     emitted |-> Append(w.emitted, x)]

\* mutant of WalkStep: the cursor moves one past the end of the span
WalkStep_PastEnd(s, w, x) ==
    IF x.start < w.cursor THEN w
    ELSE [result |-> w.result \o <<Slice(s, w.cursor, x.start), x.repl>>,
          cursor |-> x.end + 1,
          emitted |-> Append(w.emitted, x)]

\* one round of the cursor loop on span x, from the loop state w
WalkStep(s, w, x) ==
    IF x.start < w.cursor THEN w
    ELSE [result |-> w.result \o <<Slice(s, w.cursor, x.start), x.repl>>,
          cursor |-> x.end,
          emitted |-> Append(w.emitted, x)]

RECURSIVE Walk(_, _, _, _)
\* the cursor loop: the pieces appended to `result`, the final cursor, and the
\* spans whose replacement was appended
Walk(s, w, sorted, k) ==
    IF k > Len(sorted) THEN w ELSE Walk(s, WalkStep(s, w, sorted[k]), sorted, k + 1)

RECURSIVE Join(_)
\* "".join(pieces)
Join(pieces) == IF pieces = <<>> THEN "" ELSE Head(pieces) \o Join(Tail(pieces))

SortedSpans(sp) == SortByStart(Normalize(sp, 1, <<>>), 1, <<>>)

Resolve(s, sp) == Walk(s, [result |-> <<>>, cursor |-> 0, emitted |-> <<>>], SortedSpans(sp), 1)

\* the spans apply_spans substitutes, in output order
Emitted(s, sp) == IF sp = <<>> THEN <<>> ELSE Resolve(s, sp).emitted

\* mutant of apply_spans: with no span the pieces joined are those collected
\* by the loop, which ran on nothing
apply_spans_NoSpansNoText(s, sp) ==
    IF sp = <<>> THEN Join(<<>>)
    ELSE LET w == Resolve(s, sp)
         IN  Join(Append(w.result, Slice(s, w.cursor, Len(s))))

\* apply_spans(text, spans)
apply_spans(s, sp) ==
    IF sp = <<>> THEN s
    ELSE LET w == Resolve(s, sp)
         IN  Join(Append(w.result, Slice(s, w.cursor, Len(s))))

(***************************************************************************)
(* anonymize_text on one text unit with a fresh registry, as                *)
(* anonymize_document(content, "text") runs it: the pattern detector, the  *)
(* entity detector, then the span resolver.                                *)
(***************************************************************************)
Fragments ==
    {"123-45-6789", "12 ", "1990-01-02", " 1234", "345-6789@b.co",
     "4111 1111 1111 1111", "555-123-4567"}

RECURSIVE TextsOf(_)
\* the concatenations of at most n fragments
TextsOf(n) ==
    IF n = 0 THEN {""}
    ELSE LET shorter == TextsOf(n - 1)
         IN  shorter \cup {t \o f : t \in shorter, f \in Fragments}

Texts == TextsOf(MaxFrags)

\* the entity_group values the recognizer is taken to return
RawLabels == {"per", ""}

\* the words of s: the maximal runs of word characters, as (start, end)
WordRanges(s) ==
    {<<a, b>> \in (0..Len(s)) \X (0..Len(s)) :
        /\ a < b
        /\ \A j \in a..(b - 1) : CharAt(s, j) \in WordChars
        /\ CharAt(s, a - 1) \notin WordChars
        /\ CharAt(s, b) \notin WordChars}

\* the ranges an entity of the recognizer may cover: a word of the text, or a
\* range one of the patterns matched (whatever became of that candidate)
NerRanges(s, lg) == WordRanges(s) \cup {<<lg[k].start, lg[k].end>> : k \in 1..Len(lg)}

NerEntities(s, lg) ==
    {[entity_group |-> g, start |-> r[1], end |-> r[2]] : g \in RawLabels, r \in NerRanges(s, lg)}

RECURSIVE SeqsUpTo(_, _)
\* the lists of at most n elements of S
SeqsUpTo(S, n) ==
    IF n = 0 THEN {<<>>}
    ELSE LET shorter == SeqsUpTo(S, n - 1)
         IN  shorter \cup {Append(q, x) : q \in shorter, x \in S}

\* no entry point is running
NoProcs ==
    /\ heap = <<>>
    /\ procs = <<>>
    /\ recognizer = [t |-> "None", names |-> FALSE, failOn |-> {}]
    /\ cache = [value |-> 0, constructed |-> 0]

Init ==
    /\ text \in Texts
    /\ manager = PlaceholderManager
    /\ spans = <<>>
    /\ log = <<>>
    /\ output = ""
    /\ pc = "regex"
    /\ history = <<>>
    /\ NoProcs

\* spans = gather_regex_spans(text, manager)
GatherRegex ==
    /\ pc = "regex"
    /\ \E g \in {gather_regex_spans(text, manager)} :
           /\ spans' = g.spans
           /\ manager' = g.manager
           /\ log' = g.log
    /\ pc' = "ner"
    /\ UNCHANGED <<text, output, history>>
    /\ UNCHANGED procvars

\* spans.extend(gather_ner_spans(text, manager, ner_pipeline))
GatherNer ==
    /\ pc = "ner"
    /\ \E entities \in SeqsUpTo(NerEntities(text, log), MaxEnt) :
          LET g == gather_ner_spans(text, manager, entities)
          IN  /\ spans' = spans \o g.spans
              /\ manager' = g.manager
    /\ pc' = "apply"
    /\ UNCHANGED <<text, log, output, history>>
    /\ UNCHANGED procvars

\* return apply_spans(text, spans)
ApplySpans ==
    /\ pc = "apply"
    /\ output' = apply_spans(text, spans)
    /\ pc' = "done"
    /\ UNCHANGED <<text, manager, spans, log, history>>
    /\ UNCHANGED procvars

Next == GatherRegex \/ GatherNer \/ ApplySpans

Spec == Init /\ [][Next]_vars

(***************************************************************************)
(* The registry on its own: any sequence of get calls on one manager.      *)
(***************************************************************************)
RegistryLabels == {"PERSON", "SSN", "PERSON_1"}
RegistryValues == {"John", "john", "John "}

InitRegistry ==
    /\ text = ""
    /\ manager = PlaceholderManager
    /\ spans = <<>>
    /\ log = <<>>
    /\ output = ""
    /\ pc = "registry"
    /\ history = <<>>
    /\ NoProcs

\* manager.get(label, value), its result recorded
Get(label, value) ==
    /\ pc = "registry"
    /\ Len(history) < MaxCalls
    /\ LET g == get(manager, label, value)
       IN  /\ manager' = g.manager
           /\ history' = Append(history, [label |-> label, value |-> value, ret |-> g.ret])
    /\ UNCHANGED <<text, spans, log, output, pc>>
    /\ UNCHANGED procvars

NextRegistry == \E label \in RegistryLabels, value \in RegistryValues : Get(label, value)

SpecRegistry == InitRegistry /\ [][NextRegistry]_vars

(***************************************************************************)
(* The span resolver on its own: apply_spans on any text and any list of   *)
(* spans with 0 <= start < end <= len(text).  The characters of the text   *)
(* are pairwise distinct and the k-th span of the list carries the         *)
(* replacement "[Rk]", so the output shows where each piece came from.     *)
(***************************************************************************)
ResolverAlphabet == "abcdefghijklmnopqrstuvwxyz"

ResolverTexts == {SubSeq(ResolverAlphabet, 1, n) : n \in 0..MaxLen}

Ranges(n) == {r \in (0..n) \X (0..n) : r[1] < r[2]}

ResolverSpans(n) ==
    {[k \in 1..Len(q) |-> [start |-> q[k][1], end |-> q[k][2], repl |-> "[R" \o ToString(k) \o "]"]] :
        q \in SeqsUpTo(Ranges(n), MaxSpans)}

InitResolver ==
    /\ text \in ResolverTexts
    /\ manager = PlaceholderManager
    /\ spans \in ResolverSpans(Len(text))
    /\ log = <<>>
    /\ output = ""
    /\ pc = "apply"
    /\ history = <<>>
    /\ NoProcs

SpecResolver == InitResolver /\ [][ApplySpans]_vars

(***************************************************************************)
(* The entity-recognition capability.  ner_pipeline is None or a pipeline  *)
(* object; a pipeline is a deterministic function of the text: it tags the *)
(* words of its lexicon (when it has one) as persons, and raises on the    *)
(* texts of failOn.                                                        *)
(***************************************************************************)
None == [t |-> "None", names |-> FALSE, failOn |-> {}]

\* the value of a one-element set: The({e(x) : x \in {v}}) is e(v), with v
\* computed once, as a local variable of the code is assigned once
The(S) == CHOOSE x \in S : TRUE

\* the words the recognizer's lexicon holds
Lexicon == {"John", "Ann"}

RECURSIVE InOrder(_)
\* the ranges of a set as a list, by increasing start
InOrder(R) ==
    IF R = {} THEN <<>>
    ELSE LET first == CHOOSE r \in R : \A q \in R : r[1] <= q[1]
         IN  <<first>> \o InOrder(R \ {first})

\* what ner_pipeline(text) does: the exception it raises ("" for none) and the
\* entities it returns
CallPipeline(ner, s) ==
    IF ner.t = "None" THEN [exc |-> "TypeError", entities |-> <<>>]
    ELSE IF s \in ner.failOn THEN [exc |-> "CapabilityError", entities |-> <<>>]
    ELSE The({[exc |-> "",
               entities |-> [k \in 1..Len(found) |->
                                [entity_group |-> "PER", start |-> found[k][1], end |-> found[k][2]]]]
              : found \in {IF ner.names
                           THEN InOrder({r \in WordRanges(s) : Slice(s, r[1], r[2]) \in Lexicon})
                           ELSE <<>>}})

\* gather_ner_spans(text, manager, ner_pipeline) with the call of the capability:
\* the exception that leaves the function ("" for none), the manager and the spans
GatherNerSpans(s, m, ner) ==
    The({IF r.exc # "" THEN [exc |-> r.exc, manager |-> m, spans |-> <<>>]
         ELSE [exc |-> ""] @@ gather_ner_spans(s, m, r.entities)
         : r \in {CallPipeline(ner, s)}})

(***************************************************************************)
(* The walkers.  A walk carries st = [manager, calls, units, exc]: the     *)
(* registry, the texts handed to the capability so far, the text units     *)
(* anonymized so far (text, span list, result) and the exception that is   *)
(* propagating ("" for none).  Every operator returns st with the value    *)
(* returned in `ret`; once an exception propagates nothing further runs.   *)
(***************************************************************************)
Walking(m) == [manager |-> m, calls |-> <<>>, units |-> <<>>, exc |-> ""]

\* mutant of anonymize_text: a failure of the capability is swallowed and the
\* unit is anonymized from the pattern spans alone
anonymize_text_Swallow(s, st, ner) ==
    IF st.exc # "" THEN st @@ [ret |-> ""]
    ELSE The({The({The({
            [manager |-> n.manager, calls |-> Append(st.calls, s), exc |-> "",
             units |-> Append(st.units, [text |-> s, spans |-> g.spans \o n.spans, out |-> out]),
             ret |-> out]
            : out \in {apply_spans(s, g.spans \o n.spans)}})
            : n \in {GatherNerSpans(s, g.manager, ner)}})
            : g \in {gather_regex_spans(s, st.manager)}})

RECURSIVE strip(_)
\* str.strip(): the text without its leading and trailing whitespace
strip(s) ==
    IF s = "" THEN ""
    ELSE IF CharAt(s, 0) \in Whitespace THEN strip(SubSeq(s, 2, Len(s)))
    ELSE IF CharAt(s, Len(s) - 1) \in Whitespace THEN strip(SubSeq(s, 1, Len(s) - 1))
    ELSE s

\* mutant of anonymize_text: the entries created for spans that apply_spans
\* does not substitute are taken out of the registry again
anonymize_text_ForgetsDropped(s, st, ner) ==
    IF st.exc # "" THEN st @@ [ret |-> ""]
    ELSE The({The({
            IF n.exc # ""
            THEN [manager |-> g.manager, calls |-> Append(st.calls, s), units |-> st.units,
                  exc |-> n.exc, ret |-> ""]
            ELSE The({[manager |->
                          [n.manager EXCEPT !.lookup =
                              SelectSeq(@, LAMBDA entry :
                                  \/ HasKey(st.manager.lookup, entry.key)
                                  \/ \E k \in 1..Len(Emitted(s, g.spans \o n.spans)) :
                                         Emitted(s, g.spans \o n.spans)[k].repl = entry.ph)],
                       calls |-> Append(st.calls, s), exc |-> "",
                       units |-> Append(st.units,
                                        [text |-> s, spans |-> g.spans \o n.spans, out |-> out]),
                       ret |-> out]
                      : out \in {apply_spans(s, g.spans \o n.spans)}})
            : n \in {GatherNerSpans(s, g.manager, ner)}})
            : g \in {gather_regex_spans(s, st.manager)}})

\* mutant of anonymize_text: the result is returned stripped
anonymize_text_Stripped(s, st, ner) ==
    IF st.exc # "" THEN st @@ [ret |-> ""]
    ELSE The({The({
            IF n.exc # ""
            THEN [manager |-> g.manager, calls |-> Append(st.calls, s), units |-> st.units,
                  exc |-> n.exc, ret |-> ""]
            ELSE The({[manager |-> n.manager, calls |-> Append(st.calls, s), exc |-> "",
                       units |-> Append(st.units,
                                        [text |-> s, spans |-> g.spans \o n.spans, out |-> out]),
                       ret |-> out]
                      : out \in {strip(apply_spans(s, g.spans \o n.spans))}})
            : n \in {GatherNerSpans(s, g.manager, ner)}})
            : g \in {gather_regex_spans(s, st.manager)}})

\* anonymize_text(text, manager, ner_pipeline)
anonymize_text(s, st, ner) ==
    IF st.exc # "" THEN st @@ [ret |-> ""]
    ELSE The({The({
            IF n.exc # ""
            THEN [manager |-> g.manager, calls |-> Append(st.calls, s), units |-> st.units,
                  exc |-> n.exc, ret |-> ""]
            ELSE The({[manager |-> n.manager, calls |-> Append(st.calls, s), exc |-> "",
                       units |-> Append(st.units,
                                        [text |-> s, spans |-> g.spans \o n.spans, out |-> out]),
                       ret |-> out]
                      : out \in {apply_spans(s, g.spans \o n.spans)}})
            : n \in {GatherNerSpans(s, g.manager, ner)}})
            : g \in {gather_regex_spans(s, st.manager)}})

\* the walk state of a result record
StateOf(r) == [manager |-> r.manager, calls |-> r.calls, units |-> r.units, exc |-> r.exc]

(***************************************************************************)
(* JSON values: [t |-> "str", v], [t |-> "int", n], [t |-> "number",       *)
(* digits], [t |-> "bool", b],                                             *)
(* [t |-> "null"], [t |-> "list", items] and [t |-> "dict", entries], the  *)
(* entries of a dict being its [key, val] pairs in insertion order.        *)
(***************************************************************************)
JStr(v) == [t |-> "str", v |-> v]
JInt(n) == [t |-> "int", n |-> n]
JBool(b) == [t |-> "bool", b |-> b]
JNull == [t |-> "null"]
\* an integer too long for the arithmetic of the model, held by its digits
JNumber(digits) == [t |-> "number", digits |-> digits]
JList(elems) == [t |-> "list", items |-> elems]
JDict(entries) == [t |-> "dict", entries |-> entries]

RECURSIVE anonymize_json_value(_, _, _)
RECURSIVE JsonItems(_, _, _, _, _)
RECURSIVE JsonEntries(_, _, _, _, _)
RECURSIVE JsonEntries_RewriteKeys(_, _, _, _, _)

\* [anonymize_json_value(item, ...) for item in value]
JsonItems(elems, k, st, ner, acc) ==
    IF k > Len(elems) \/ st.exc # "" THEN st @@ [ret |-> acc]
    ELSE The({JsonItems(elems, k + 1, StateOf(r), ner, Append(acc, r.ret))
              : r \in {anonymize_json_value(elems[k], st, ner)}})

\* mutant of JsonEntries: the keys are anonymized like string leaves
JsonEntries_RewriteKeys(entries, k, st, ner, acc) ==
    IF k > Len(entries) \/ st.exc # "" THEN st @@ [ret |-> acc]
    ELSE The({The({JsonEntries_RewriteKeys(entries, k + 1, StateOf(r), ner,
                                           Append(acc, [key |-> q.ret, val |-> r.ret]))
                   : r \in {anonymize_json_value(entries[k].val, StateOf(q), ner)}})
              : q \in {anonymize_text(entries[k].key, st, ner)}})

\* {key: anonymize_json_value(val, ...) for key, val in value.items()}
JsonEntries(entries, k, st, ner, acc) ==
    IF k > Len(entries) \/ st.exc # "" THEN st @@ [ret |-> acc]
    ELSE The({JsonEntries(entries, k + 1, StateOf(r), ner,
                          Append(acc, [key |-> entries[k].key, val |-> r.ret]))
              : r \in {anonymize_json_value(entries[k].val, st, ner)}})

\* anonymize_json_value(value, manager, ner_pipeline)
anonymize_json_value(value, st, ner) ==
    IF st.exc # "" THEN st @@ [ret |-> value]
    ELSE IF value.t = "str"
    THEN The({[r EXCEPT !.ret = JStr(@)] : r \in {anonymize_text(value.v, st, ner)}})
    ELSE IF value.t = "list"
    THEN The({[r EXCEPT !.ret = JList(@)] : r \in {JsonItems(value.items, 1, st, ner, <<>>)}})
    ELSE IF value.t = "dict"
    THEN The({[r EXCEPT !.ret = JDict(@)] : r \in {JsonEntries(value.entries, 1, st, ner, <<>>)}})
    ELSE st @@ [ret |-> value]

(***************************************************************************)
(* XML.  The content of an XML document is its markup: an element is       *)
(* [t |-> "element", tag, attrib, items], its items being text runs        *)
(* [t |-> "text", v], comments [t |-> "comment", v] and elements.  The     *)
(* parser builds from it the tree of Element objects [tag, attrib, text,   *)
(* tail, children]; a text or tail of None is "" (the walker and the       *)
(* serializer treat the two alike).                                        *)
(***************************************************************************)
XText(v) == [t |-> "text", v |-> v]
XComment(v) == [t |-> "comment", v |-> v]
XElement(tag, attrib, its) == [t |-> "element", tag |-> tag, attrib |-> attrib, items |-> its]

RECURSIVE BuildElement(_)
RECURSIVE BuildItems(_, _, _)

\* the parser's events on the items of an element: character data goes to the
\* text of the element or to the tail of its last child; a comment is not put
\* in the tree; an element becomes a child
BuildItems(its, k, e) ==
    IF k > Len(its) THEN e
    ELSE LET it == its[k]
             n == Len(e.children)
         IN  BuildItems(its, k + 1,
                CASE it.t = "text" ->
                        IF n = 0 THEN [e EXCEPT !.text = @ \o it.v]
                        ELSE [e EXCEPT !.children[n].tail = @ \o it.v]
                  [] it.t = "comment" -> e
                  [] OTHER -> [e EXCEPT !.children = Append(@, BuildElement(it))])

BuildElement(x) ==
    BuildItems(x.items, 1,
               [tag |-> x.tag, attrib |-> x.attrib, text |-> "", tail |-> "", children |-> <<>>])

\* mutant of fromstring: content that is not well-formed is parsed as far as it goes
fromstring_Lenient(content) == [exc |-> "", ret |-> BuildElement(content.root)]

\* ET.fromstring(xml_text): the exception raised ("" for none) and the root
fromstring(content) ==
    IF content.wellformed
    THEN [exc |-> "", ret |-> BuildElement(content.root)]
    ELSE [exc |-> "xml.etree.ElementTree.ParseError", ret |-> <<>>]

RECURSIVE anonymize_xml_element(_, _, _)
RECURSIVE XmlChildren(_, _, _, _, _)
RECURSIVE anonymize_xml_element_OwnRegistry(_, _, _)
RECURSIVE XmlChildren_OwnRegistry(_, _, _, _, _)
RECURSIVE anonymize_xml_element_TailLast(_, _, _)
RECURSIVE XmlChildren_TailLast(_, _, _, _, _)

\* mutant of XmlChildren, for the walker below
XmlChildren_OwnRegistry(children, k, st, ner, acc) ==
    IF k > Len(children) \/ st.exc # "" THEN st @@ [ret |-> acc]
    ELSE The({XmlChildren_OwnRegistry(children, k + 1, StateOf(r), ner, Append(acc, r.ret))
              : r \in {anonymize_xml_element_OwnRegistry(children[k], st, ner)}})

\* mutant of anonymize_xml_element: a tail is anonymized against a registry of
\* its own
anonymize_xml_element_OwnRegistry(node, st, ner) ==
    IF st.exc # "" THEN st @@ [ret |-> node]
    ELSE The({The({The({
            [c EXCEPT !.ret = [node EXCEPT !.text = a.ret, !.tail = b.ret, !.children = c.ret]]
            : c \in {XmlChildren_OwnRegistry(node.children, 1, StateOf(b), ner, <<>>)}})
            : b \in {[manager |-> a.manager] @@
                     (IF node.tail # ""
                      THEN anonymize_text(node.tail,
                                          [StateOf(a) EXCEPT !.manager = PlaceholderManager], ner)
                      ELSE StateOf(a) @@ [ret |-> node.tail])}})
            : a \in {IF node.text # "" THEN anonymize_text(node.text, st, ner)
                     ELSE st @@ [ret |-> node.text]}})

\* mutant of XmlChildren, for the walker below
XmlChildren_TailLast(children, k, st, ner, acc) ==
    IF k > Len(children) \/ st.exc # "" THEN st @@ [ret |-> acc]
    ELSE The({XmlChildren_TailLast(children, k + 1, StateOf(r), ner, Append(acc, r.ret))
              : r \in {anonymize_xml_element_TailLast(children[k], st, ner)}})

\* mutant of anonymize_xml_element: the tail of a node is anonymized after the
\* descendants of the node, where it stands in the document
anonymize_xml_element_TailLast(node, st, ner) ==
    IF st.exc # "" THEN st @@ [ret |-> node]
    ELSE The({The({The({
            [b EXCEPT !.ret = [node EXCEPT !.text = a.ret, !.tail = b.ret, !.children = c.ret]]
            : b \in {IF node.tail # "" THEN anonymize_text(node.tail, StateOf(c), ner)
                     ELSE StateOf(c) @@ [ret |-> node.tail]}})
            : c \in {XmlChildren_TailLast(node.children, 1, StateOf(a), ner, <<>>)}})
            : a \in {IF node.text # "" THEN anonymize_text(node.text, st, ner)
                     ELSE st @@ [ret |-> node.text]}})

\* the nodes that element.iter() yields after a node: its children, each with
\* its own descendants, in order
XmlChildren(children, k, st, ner, acc) ==
    IF k > Len(children) \/ st.exc # "" THEN st @@ [ret |-> acc]
    ELSE The({XmlChildren(children, k + 1, StateOf(r), ner, Append(acc, r.ret))
              : r \in {anonymize_xml_element(children[k], st, ner)}})

\* anonymize_xml_element(element, manager, ner_pipeline): the loop over
\* element.iter() handles the node itself, text then tail, then its descendants
anonymize_xml_element(node, st, ner) ==
    IF st.exc # "" THEN st @@ [ret |-> node]
    ELSE The({The({The({
            [c EXCEPT !.ret = [node EXCEPT !.text = a.ret, !.tail = b.ret, !.children = c.ret]]
            : c \in {XmlChildren(node.children, 1, StateOf(b), ner, <<>>)}})
            : b \in {IF node.tail # "" THEN anonymize_text(node.tail, StateOf(a), ner)
                     ELSE StateOf(a) @@ [ret |-> node.tail]}})
            : a \in {IF node.text # "" THEN anonymize_text(node.text, st, ner)
                     ELSE st @@ [ret |-> node.text]}})

RECURSIVE Escape(_)
\* the serializer's escaping of character data
Escape(s) ==
    IF s = "" THEN ""
    ELSE LET c == SubSeq(s, 1, 1)
         IN  (CASE c = "&" -> "&amp;" [] c = "<" -> "&lt;" [] c = ">" -> "&gt;" [] OTHER -> c)
             \o Escape(SubSeq(s, 2, Len(s)))

RECURSIVE Attributes(_, _)
Attributes(attrib, k) ==
    IF k > Len(attrib) THEN ""
    ELSE " " \o attrib[k].name \o "=\"" \o Escape(attrib[k].value) \o "\"" \o Attributes(attrib, k + 1)

RECURSIVE tostring(_)
RECURSIVE SerializeAll(_, _)
SerializeAll(children, k) ==
    IF k > Len(children) THEN "" ELSE tostring(children[k]) \o SerializeAll(children, k + 1)

\* ET.tostring(root, encoding="unicode")
tostring(node) ==
    (IF node.text = "" /\ node.children = <<>>
     THEN "<" \o node.tag \o Attributes(node.attrib, 1) \o " />"
     ELSE "<" \o node.tag \o Attributes(node.attrib, 1) \o ">" \o Escape(node.text)
          \o SerializeAll(node.children, 1) \o "</" \o node.tag \o ">")
    \o Escape(node.tail)

\* anonymize_xml_string(xml_text, manager, ner_pipeline); `tree` is the tree the
\* returned string was written from
anonymize_xml_string(content, st, ner) ==
    The({IF root.exc # "" THEN [st EXCEPT !.exc = root.exc] @@ [ret |-> "", tree |-> <<>>]
         ELSE The({IF r.exc # "" THEN StateOf(r) @@ [ret |-> "", tree |-> <<>>]
                   ELSE StateOf(r) @@ [ret |-> tostring(r.ret), tree |-> r.ret]
                   : r \in {anonymize_xml_element(root.ret, st, ner)}})
         : root \in {fromstring(content)}})

(***************************************************************************)
(* JSON text.  The content of a JSON document is the value it denotes, or  *)
(* text that denotes none.                                                 *)
(***************************************************************************)
\* json.loads(json_text)
loads(content) ==
    IF content.wellformed
    THEN [exc |-> "", ret |-> content.value]
    ELSE [exc |-> "json.decoder.JSONDecodeError", ret |-> <<>>]

RECURSIVE Indent(_)
Indent(level) == IF level = 0 THEN "" ELSE "    " \o Indent(level - 1)

RECURSIVE dumps(_, _)
RECURSIVE DumpItems(_, _, _)
RECURSIVE DumpEntries(_, _, _)
DumpItems(elems, k, level) ==
    IF k > Len(elems) THEN ""
    ELSE Indent(level) \o dumps(elems[k], level)
         \o (IF k < Len(elems) THEN ",\n" ELSE "\n") \o DumpItems(elems, k + 1, level)

DumpEntries(entries, k, level) ==
    IF k > Len(entries) THEN ""
    ELSE Indent(level) \o "\"" \o entries[k].key \o "\": " \o dumps(entries[k].val, level)
         \o (IF k < Len(entries) THEN ",\n" ELSE "\n") \o DumpEntries(entries, k + 1, level)

\* json.dumps(value, indent=4), at nesting depth `level`
dumps(value, level) ==
    CASE value.t = "str" -> "\"" \o value.v \o "\""
      [] value.t = "int" -> ToString(value.n)
      [] value.t = "number" -> value.digits
      [] value.t = "bool" -> IF value.b THEN "true" ELSE "false"
      [] value.t = "null" -> "null"
      [] value.t = "list" ->
            IF value.items = <<>> THEN "[]"
            ELSE "[\n" \o DumpItems(value.items, 1, level + 1) \o Indent(level) \o "]"
      [] OTHER ->
            IF value.entries = <<>> THEN "{}"
            ELSE "{\n" \o DumpEntries(value.entries, 1, level + 1) \o Indent(level) \o "}"

\* anonymize_json_string(json_text, manager, ner_pipeline); `tree` is the value
\* the returned string was written from
anonymize_json_string(content, st, ner) ==
    The({IF data.exc # "" THEN [st EXCEPT !.exc = data.exc] @@ [ret |-> "", tree |-> <<>>]
         ELSE The({IF cleaned.exc # "" THEN StateOf(cleaned) @@ [ret |-> "", tree |-> <<>>]
                   ELSE StateOf(cleaned) @@ [ret |-> dumps(cleaned.ret, 0), tree |-> cleaned.ret]
                   : cleaned \in {anonymize_json_value(data.ret, st, ner)}})
         : data \in {loads(content)}})

\* the body of anonymize_document after the registry is created: the walker
\* chosen by content_type, on a plain text the text walker
WalkDocument(content, content_type, st, ner) ==
    IF content_type = "xml" THEN anonymize_xml_string(content, st, ner)
    ELSE IF content_type = "json" THEN anonymize_json_string(content, st, ner)
    ELSE anonymize_text(content.text, st, ner) @@ [tree |-> <<>>]

(***************************************************************************)
(* The documents and recognizers the entry points are run on.              *)
(***************************************************************************)
\* the text runs of the documents
UnitTexts == {"John", "Ann", " said hi John", "123-45-6789", "  "}

\* the pipelines load_ner_pipeline may construct: with or without a lexicon,
\* raising on no text or on one
Recognizers ==
    {[t |-> "pipeline", names |-> n, failOn |-> f] :
        n \in BOOLEAN, f \in {{}, {"John"}, {" said hi John"}, {"Ann"}}}

JsonLeaves ==
    {JStr(v) : v \in {"John", "Ann", "Call 555-123-4567", "  ", "John@b.co"}}
    \cup {JInt(42), JBool(TRUE), JNull}

JsonKeys == {"b", "John"}

\* what a list or a dict of the documents may hold
JsonElems ==
    JsonLeaves \cup {JList(<<JStr("Ann"), JInt(42)>>), JDict(<<[key |-> "k", val |-> JStr("John")]>>)}

\* the lists of entries with pairwise different keys
JsonEntryLists ==
    {q \in SeqsUpTo({[key |-> k, val |-> v] : k \in JsonKeys, v \in JsonElems}, MaxItems) :
        \A i, j \in 1..Len(q) : i # j => q[i].key # q[j].key}

JsonValues ==
    JsonElems \cup {JList(q) : q \in SeqsUpTo(JsonElems, MaxItems)}
              \cup {JDict(q) : q \in JsonEntryLists}

Attrib == <<[name |-> "x", value |-> "John"]>>

\* what the root element of the documents may hold
XmlItems ==
    {XText("John"), XText(" said hi John"), XText("  "), XComment(" John "),
     XElement("b", <<>>, <<>>),
     XElement("b", <<>>, <<XText("Ann")>>),
     XElement("b", Attrib, <<XText("123-45-6789")>>),
     XElement("b", <<>>, <<XText("Ann"), XElement("c", <<>>, <<XText("John")>>), XText("John")>>),
     XElement("b", <<>>, <<XElement("c", <<>>, <<XText("Ann")>>)>>)}

XmlRoots == {XElement("a", Attrib, q) : q \in SeqsUpTo(XmlItems, MaxItems)}

\* the contents of a content type: the well-formed ones and one that does not parse
Contents(content_type) ==
    IF content_type = "xml"
    THEN {[wellformed |-> TRUE, root |-> x] : x \in XmlRoots}
         \cup {[wellformed |-> FALSE, root |-> XElement("a", Attrib, <<XText("John")>>)]}
    ELSE IF content_type = "json"
    THEN {[wellformed |-> TRUE, value |-> v] : v \in JsonValues}
         \cup {[wellformed |-> FALSE, value |-> JStr("John")]}
    ELSE {[wellformed |-> TRUE, text |-> v] : v \in UnitTexts}

ContentTypes == {"xml", "json", "text"}

Requests ==
    UNION {{[content_type |-> ct, content |-> c] : c \in Contents(ct)} : ct \in ContentTypes}

(***************************************************************************)
(* load_ner_pipeline and the PlaceholderManager objects.  cache.value is   *)
(* the identity of the cached pipeline (0: the cache is empty) and         *)
(* cache.constructed counts the runs of the constructor; heap[ref] is the  *)
(* PlaceholderManager with identity ref.                                   *)
(***************************************************************************)
\* the pipeline object with identity id
Pipeline(r, id) == r @@ [id |-> id]

\* load_ner_pipeline() when no other call of it is in progress
load_ner_pipeline(c, r) ==
    IF c.value # 0 THEN [cache |-> c, ret |-> Pipeline(r, c.value)]
    ELSE [cache |-> [value |-> c.constructed + 1, constructed |-> c.constructed + 1],
          ret |-> Pipeline(r, c.constructed + 1)]

\* mutant of NewManager: one module-level manager serves every call
NewManager_Global(hp) ==
    IF hp = <<>> THEN [heap |-> <<PlaceholderManager>>, ref |-> 1] ELSE [heap |-> hp, ref |-> 1]

\* mutant of NewManager: the counters are a class attribute, so a new object
\* goes on counting where the last one stands
NewManager_SharedCounters(hp) ==
    [heap |-> Append(hp, IF hp = <<>> THEN PlaceholderManager
                         ELSE [counters |-> hp[Len(hp)].counters, lookup |-> <<>>]),
     ref |-> Len(hp) + 1]

\* manager = PlaceholderManager(): a new object
NewManager(hp) == [heap |-> Append(hp, PlaceholderManager), ref |-> Len(hp) + 1]

\* the unit variables are not used by the entry points
NoUnit ==
    /\ text = ""
    /\ manager = PlaceholderManager
    /\ spans = <<>>
    /\ log = <<>>
    /\ output = ""
    /\ history = <<>>

(***************************************************************************)
(* anonymize_document.  procs[p] is one call: its arguments, its position  *)
(* (start, walk, return, done, raised), its locals ner_pipeline and        *)
(* manager, the walk it made, the exception that left it and the value it  *)
(* returned.  `processed` lists the documents it ran with the manager each *)
(* was run against.                                                        *)
(***************************************************************************)
Call(request) ==
    [kind |-> "document", content_type |-> request.content_type, content |-> request.content,
     pc |-> "start", ner |-> None, manager |-> 0, walk |-> <<>>, exc |-> "",
     result |-> <<>>, processed |-> <<>>]

InitDocument ==
    /\ NoUnit
    /\ pc = "document"
    /\ heap = <<>>
    /\ \E request \in Requests : procs = <<Call(request)>>
    /\ recognizer \in Recognizers
    /\ cache = [value |-> 0, constructed |-> 0]

\* ner_pipeline = load_ner_pipeline(); manager = PlaceholderManager()
Begin(p) ==
    /\ procs[p].kind = "document"
    /\ procs[p].pc = "start"
    /\ \E l \in {load_ner_pipeline(cache, recognizer)}, a \in {NewManager(heap)} :
          /\ cache' = l.cache
          /\ heap' = a.heap
          /\ procs' = [procs EXCEPT ![p].ner = l.ret, ![p].manager = a.ref, ![p].pc = "walk"]
    /\ UNCHANGED recognizer
    /\ UNCHANGED unitvars

\* the if / elif / else of anonymize_document: the walker runs to its end or to
\* the exception that leaves it
Process(p) ==
    /\ procs[p].kind = "document"
    /\ procs[p].pc = "walk"
    /\ \E r \in {WalkDocument(procs[p].content, procs[p].content_type,
                             Walking(heap[procs[p].manager]), procs[p].ner)} :
          /\ heap' = [heap EXCEPT ![procs[p].manager] = r.manager]
          /\ procs' = [procs EXCEPT
                ![p].walk = r,
                ![p].exc = r.exc,
                ![p].processed = Append(@, [content |-> procs[p].content,
                                            manager |-> procs[p].manager]),
                ![p].pc = IF r.exc = "" THEN "return" ELSE "raised"]
    /\ UNCHANGED <<recognizer, cache>>
    /\ UNCHANGED unitvars

\* return result, manager
Return(p) ==
    /\ procs[p].kind = "document"
    /\ procs[p].pc = "return"
    /\ procs' = [procs EXCEPT
          ![p].result = [output |-> procs[p].walk.ret, manager |-> procs[p].manager],
          ![p].pc = "done"]
    /\ UNCHANGED <<heap, recognizer, cache>>
    /\ UNCHANGED unitvars

NextDocument == \E p \in DOMAIN procs : Begin(p) \/ Process(p) \/ Return(p)

SpecDocument == InitDocument /\ [][NextDocument]_vars

(***************************************************************************)
(* main: the script run on the two sample files.  procs[p] is one run: the *)
(* contents of sample_data.xml and sample_data.json (exists: both files    *)
(* are there), its position (start, xml, json, log, done, raised), its     *)
(* locals, the files written and the mappings logged.                      *)
(***************************************************************************)
\* anonymize_xml(path, destination, manager, ner_pipeline): what is written
anonymize_xml(content, st, ner) ==
    The({IF root.exc # "" THEN [st EXCEPT !.exc = root.exc] @@ [ret |-> "", tree |-> <<>>]
         ELSE The({IF r.exc # "" THEN StateOf(r) @@ [ret |-> "", tree |-> <<>>]
                   ELSE StateOf(r) @@ [ret |-> "<?xml version='1.0' encoding='utf-8'?>\n"
                                               \o tostring(r.ret),
                                       tree |-> r.ret]
                   : r \in {anonymize_xml_element(root.ret, st, ner)}})
         : root \in {fromstring(content)}})

\* anonymize_json(path, destination, manager, ner_pipeline): what is written
anonymize_json(content, st, ner) == anonymize_json_string(content, st, ner)

XmlSamples ==
    {[wellformed |-> TRUE, root |-> XElement("a", Attrib, q)] : q \in SeqsUpTo(XmlItems, 1)}
    \cup {[wellformed |-> FALSE, root |-> XElement("a", Attrib, <<XText("John")>>)]}

JsonSamples ==
    {[wellformed |-> TRUE, value |-> v] : v \in JsonElems}
    \cup {[wellformed |-> FALSE, value |-> JStr("John")]}

MainRun(exists, xml, json) ==
    [kind |-> "main", exists |-> exists, xml |-> xml, json |-> json,
     pc |-> "start", ner |-> None, manager |-> 0, exc |-> "",
     written |-> <<>>, logged |-> <<>>, processed |-> <<>>]

InitMain ==
    /\ NoUnit
    /\ pc = "main"
    /\ heap = <<>>
    /\ \E exists \in BOOLEAN, xml \in XmlSamples, json \in JsonSamples :
          procs = <<MainRun(exists, xml, json)>>
    /\ recognizer \in Recognizers
    /\ cache = [value |-> 0, constructed |-> 0]

\* the check of the sample files, load_ner_pipeline() and PlaceholderManager()
MainStart(p) ==
    /\ procs[p].kind = "main"
    /\ procs[p].pc = "start"
    /\ IF ~procs[p].exists
       THEN /\ procs' = [procs EXCEPT ![p].exc = "FileNotFoundError", ![p].pc = "raised"]
            /\ UNCHANGED <<heap, cache>>
       ELSE \E l \in {load_ner_pipeline(cache, recognizer)}, a \in {NewManager(heap)} :
               /\ cache' = l.cache
               /\ heap' = a.heap
               /\ procs' = [procs EXCEPT ![p].ner = l.ret, ![p].manager = a.ref, ![p].pc = "xml"]
    /\ UNCHANGED recognizer
    /\ UNCHANGED unitvars

\* anonymize_xml(INPUT_XML, OUTPUT_XML, manager, ner_pipeline)
MainXml(p) ==
    /\ procs[p].kind = "main"
    /\ procs[p].pc = "xml"
    /\ \E r \in {anonymize_xml(procs[p].xml, Walking(heap[procs[p].manager]), procs[p].ner)} :
          /\ heap' = [heap EXCEPT ![procs[p].manager] = r.manager]
          /\ procs' = [procs EXCEPT
                ![p].exc = r.exc,
                ![p].written = IF r.exc = "" THEN Append(@, [file |-> "OUTPUT_XML", data |-> r.ret])
                               ELSE @,
                ![p].processed = Append(@, [content |-> procs[p].xml, manager |-> procs[p].manager]),
                ![p].pc = IF r.exc = "" THEN "json" ELSE "raised"]
    /\ UNCHANGED <<recognizer, cache>>
    /\ UNCHANGED unitvars

\* anonymize_json(INPUT_JSON, OUTPUT_JSON, manager, ner_pipeline)
MainJson(p) ==
    /\ procs[p].kind = "main"
    /\ procs[p].pc = "json"
    /\ \E r \in {anonymize_json(procs[p].json, Walking(heap[procs[p].manager]), procs[p].ner)} :
          /\ heap' = [heap EXCEPT ![procs[p].manager] = r.manager]
          /\ procs' = [procs EXCEPT
                ![p].exc = r.exc,
                ![p].written = IF r.exc = "" THEN Append(@, [file |-> "OUTPUT_JSON", data |-> r.ret])
                               ELSE @,
                ![p].processed = Append(@, [content |-> procs[p].json, manager |-> procs[p].manager]),
                ![p].pc = IF r.exc = "" THEN "log" ELSE "raised"]
    /\ UNCHANGED <<recognizer, cache>>
    /\ UNCHANGED unitvars

\* the loop over manager.items() that logs the mappings
MainLog(p) ==
    /\ procs[p].kind = "main"
    /\ procs[p].pc = "log"
    /\ procs' = [procs EXCEPT ![p].logged = items(heap[procs[p].manager]), ![p].pc = "done"]
    /\ UNCHANGED <<heap, recognizer, cache>>
    /\ UNCHANGED unitvars

NextMain == \E p \in DOMAIN procs : MainStart(p) \/ MainXml(p) \/ MainJson(p) \/ MainLog(p)

SpecMain == InitMain /\ [][NextMain]_vars

(***************************************************************************)
(* gather_ner_spans called on its own, with the capability present or      *)
(* configured as absent (None).  procs[p] is one call: its arguments, its  *)
(* position (start, done, raised), the exception that left it and the      *)
(* spans it returned.                                                      *)
(***************************************************************************)
AdapterCall(s, ner) ==
    [kind |-> "adapter", text |-> s, ner |-> ner, pc |-> "start", manager |-> 1,
     exc |-> "", returned |-> <<>>]

InitAdapter ==
    /\ NoUnit
    /\ pc = "adapter"
    /\ heap = <<PlaceholderManager>>
    /\ \E s \in Texts \cup UnitTexts, ner \in Recognizers \cup {None} :
          procs = <<AdapterCall(s, ner)>>
    /\ recognizer = None
    /\ cache = [value |-> 0, constructed |-> 0]

\* gather_ner_spans(text, manager, ner_pipeline)
FindEntities(p) ==
    /\ procs[p].kind = "adapter"
    /\ procs[p].pc = "start"
    /\ \E r \in {GatherNerSpans(procs[p].text, heap[procs[p].manager], procs[p].ner)} :
          /\ heap' = [heap EXCEPT ![procs[p].manager] = r.manager]
          /\ procs' = [procs EXCEPT
                ![p].exc = r.exc,
                ![p].returned = r.spans,
                ![p].pc = IF r.exc = "" THEN "done" ELSE "raised"]
    /\ UNCHANGED <<recognizer, cache>>
    /\ UNCHANGED unitvars

NextAdapter == \E p \in DOMAIN procs : FindEntities(p)

SpecAdapter == InitAdapter /\ [][NextAdapter]_vars

(***************************************************************************)
(* load_ner_pipeline called from several threads.  The lru_cache wrapper   *)
(* looks the key up, on a miss calls the function without holding a lock,  *)
(* and then stores the result unless the key has been stored meanwhile;    *)
(* it returns the result of its own call of the function.  procs[t] is one *)
(* thread: its position (idle, miss, built), the pipeline it built and the *)
(* pipelines its calls returned.                                           *)
(***************************************************************************)
Thread == [kind |-> "thread", pc |-> "idle", built |-> 0, returned |-> <<>>]

InitLoader ==
    /\ NoUnit
    /\ pc = "loader"
    /\ heap = <<>>
    /\ procs = [t \in 1..MaxThreads |-> Thread]
    /\ recognizer \in Recognizers
    /\ cache = [value |-> 0, constructed |-> 0]

\* the wrapper's lookup: a hit returns the cached pipeline
Lookup(t) ==
    /\ procs[t].kind = "thread"
    /\ procs[t].pc = "idle"
    /\ Len(procs[t].returned) < MaxLoads
    /\ procs' = IF cache.value # 0
                THEN [procs EXCEPT ![t].returned = Append(@, cache.value)]
                ELSE [procs EXCEPT ![t].pc = "miss"]
    /\ UNCHANGED <<heap, recognizer, cache>>
    /\ UNCHANGED unitvars

\* the body of load_ner_pipeline: pipeline("ner", ...) builds a new object
Construct(t) ==
    /\ procs[t].kind = "thread"
    /\ procs[t].pc = "miss"
    /\ cache' = [cache EXCEPT !.constructed = @ + 1]
    /\ procs' = [procs EXCEPT ![t].built = cache.constructed + 1, ![t].pc = "built"]
    /\ UNCHANGED <<heap, recognizer>>
    /\ UNCHANGED unitvars

\* the wrapper stores the result if the key is still missing, and returns it
Store(t) ==
    /\ procs[t].kind = "thread"
    /\ procs[t].pc = "built"
    /\ cache' = [cache EXCEPT !.value = IF @ = 0 THEN procs[t].built ELSE @]
    /\ procs' = [procs EXCEPT ![t].returned = Append(@, procs[t].built), ![t].pc = "idle"]
    /\ UNCHANGED <<heap, recognizer>>
    /\ UNCHANGED unitvars

NextLoader == \E t \in DOMAIN procs : Lookup(t) \/ Construct(t) \/ Store(t)

SpecLoader == InitLoader /\ [][NextLoader]_vars

(***************************************************************************)
(* Several calls of anonymize_document in progress at once (one request    *)
(* thread each), their steps interleaved in any order.                     *)
(***************************************************************************)
ConcurrentRequests ==
    {[content_type |-> "text", content |-> [wellformed |-> TRUE, text |-> "John"]],
     [content_type |-> "text", content |-> [wellformed |-> TRUE, text |-> "Ann"]],
     [content_type |-> "xml",
      content |-> [wellformed |-> TRUE,
                   root |-> XElement("a", Attrib, <<XElement("b", <<>>, <<XText("Ann")>>),
                                                    XText(" said hi John")>>)]],
     [content_type |-> "json",
      content |-> [wellformed |-> TRUE, value |-> JList(<<JStr("John"), JStr("Ann")>>)]]}

InitConcurrent ==
    /\ NoUnit
    /\ pc = "concurrent"
    /\ heap = <<>>
    /\ procs \in [1..MaxCallers -> {Call(request) : request \in ConcurrentRequests}]
    /\ recognizer \in Recognizers
    /\ cache = [value |-> 0, constructed |-> 0]

SpecConcurrent == InitConcurrent /\ [][NextDocument]_vars

(***************************************************************************)
(* SummarizationClient (src/summarize/services.py).  procs[p] is one call  *)
(* of summarize: its text, the client's config (None or a CML endpoint),   *)
(* its position (start, cml, parse, fallback, done, raised), the response  *)
(* of the endpoint, the exception that left the call and its result.       *)
(***************************************************************************)
\* self.config: None, or the configuration of a CML endpoint
NoConfig == [t |-> "None"]
CMLSummarizationConfig == [t |-> "CMLSummarizationConfig", endpoint_url |-> "https://cml/model"]

\* the texts handed to summarize
SummarizeTexts == {"", "  ", "Hello", " One. Two. Three. ", "...", "a\nb.c", "No stop. "}

\* what requests.post may bring: an exception of the transport, an HTTP error
\* status, a body that is not JSON, or a JSON body
Responses ==
    {[kind |-> k, data |-> JNull] : k \in {"ConnectionError", "HTTPError", "JSONDecodeError"}}
    \cup {[kind |-> "ok", data |-> d] :
            d \in {JDict(<<[key |-> "summary", val |-> JStr(" A summary. ")]>>),
                   JDict(<<[key |-> "summary", val |-> JStr("")],
                           [key |-> "output", val |-> JStr("Out")]>>),
                   JDict(<<[key |-> "output", val |-> JInt(3)]>>),
                   JDict(<<>>),
                   JList(<<JStr(" first ")>>),
                   JList(<<JInt(1)>>),
                   JList(<<>>),
                   JStr("text"),
                   JNull}}

\* dict.get(key): the value of the key, None when the dict has none
DictGet(entries, key) ==
    IF \E k \in 1..Len(entries) : entries[k].key = key
    THEN entries[CHOOSE k \in 1..Len(entries) : entries[k].key = key].val
    ELSE JNull

\* the truth value of a JSON value
Truthy(v) ==
    CASE v.t = "null" -> FALSE
      [] v.t = "str" -> v.v # ""
      [] v.t = "int" -> v.n # 0
      [] v.t = "number" -> v.digits # "0"
      [] v.t = "bool" -> v.b
      [] v.t = "list" -> v.items # <<>>
      [] OTHER -> v.entries # <<>>

\* _summarize_via_cml(text) from the response on: the exception raised ("" for
\* none) and the summary returned
summarize_via_cml(response) ==
    IF response.kind # "ok" THEN [exc |-> response.kind, ret |-> ""]
    ELSE The({
        IF data.t = "dict"
           /\ (IF Truthy(DictGet(data.entries, "summary")) THEN DictGet(data.entries, "summary")
               ELSE DictGet(data.entries, "output")).t = "str"
        THEN [exc |-> "",
              ret |-> strip((IF Truthy(DictGet(data.entries, "summary"))
                             THEN DictGet(data.entries, "summary")
                             ELSE DictGet(data.entries, "output")).v)]
        ELSE IF data.t = "list" /\ data.items # <<>> /\ data.items[1].t = "str"
        THEN [exc |-> "", ret |-> strip(data.items[1].v)]
        ELSE [exc |-> "SummarizationError", ret |-> ""]
        : data \in {response.data}})

RECURSIVE replace(_, _, _)
\* str.replace(old, new) for a one-character old
replace(s, old, new) ==
    IF s = "" THEN ""
    ELSE (IF SubSeq(s, 1, 1) = old THEN new ELSE SubSeq(s, 1, 1))
         \o replace(SubSeq(s, 2, Len(s)), old, new)

RECURSIVE split(_, _, _, _, _)
\* str.split(sep) for a one-character sep: the pieces between the separators
split(s, sep, k, piece, acc) ==
    IF k > Len(s) THEN Append(acc, piece)
    ELSE IF SubSeq(s, k, k) = sep THEN split(s, sep, k + 1, "", Append(acc, piece))
    ELSE split(s, sep, k + 1, piece \o SubSeq(s, k, k), acc)

RECURSIVE Stripped(_, _, _)
\* [s.strip() for s in pieces if s.strip()]
Stripped(pieces, k, acc) ==
    IF k > Len(pieces) THEN acc
    ELSE Stripped(pieces, k + 1,
                  IF strip(pieces[k]) # "" THEN Append(acc, strip(pieces[k])) ELSE acc)

\* _fallback_summary(text)
fallback_summary(s) ==
    The({IF sentences = <<>> THEN s
         ELSE IF Len(sentences) = 1 THEN sentences[1]
         ELSE sentences[1] \o ". " \o sentences[2] \o "."
         : sentences \in {Stripped(split(replace(s, "\n", " "), ".", 1, "", <<>>), 1, <<>>)}})

SummarizeCall(s, config) ==
    [kind |-> "summarize", text |-> s, config |-> config, pc |-> "start",
     response |-> [kind |-> "", data |-> JNull], exc |-> "", result |-> ""]

InitSummarize ==
    /\ NoUnit
    /\ pc = "summarize"
    /\ heap = <<>>
    /\ \E s \in SummarizeTexts, config \in {NoConfig, CMLSummarizationConfig} :
          procs = <<SummarizeCall(s, config)>>
    /\ recognizer = None
    /\ cache = [value |-> 0, constructed |-> 0]

\* text = text.strip(); the empty text is refused; then the branch on self.config
Enter(p) ==
    /\ procs[p].kind = "summarize"
    /\ procs[p].pc = "start"
    /\ procs' = [procs EXCEPT
          ![p].text = strip(@),
          ![p].exc = IF strip(procs[p].text) = "" THEN "SummarizationError" ELSE "",
          ![p].pc = IF strip(procs[p].text) = "" THEN "raised"
                    ELSE IF procs[p].config.t # "None" THEN "cml" ELSE "fallback"]
    /\ UNCHANGED <<heap, recognizer, cache>>
    /\ UNCHANGED unitvars

\* requests.post(...): whatever the endpoint and the network answer
Post(p) ==
    /\ procs[p].kind = "summarize"
    /\ procs[p].pc = "cml"
    /\ \E response \in Responses :
          procs' = [procs EXCEPT ![p].response = response, ![p].pc = "parse"]
    /\ UNCHANGED <<heap, recognizer, cache>>
    /\ UNCHANGED unitvars

\* the rest of _summarize_via_cml inside the try of summarize: the summary is
\* returned, or any exception becomes a SummarizationError that leaves summarize
Parse(p) ==
    /\ procs[p].kind = "summarize"
    /\ procs[p].pc = "parse"
    /\ \E r \in {summarize_via_cml(procs[p].response)} :
          procs' = [procs EXCEPT
             ![p].exc = IF r.exc # "" THEN "SummarizationError" ELSE "",
             ![p].result = r.ret,
             ![p].pc = IF r.exc # "" THEN "raised" ELSE "done"]
    /\ UNCHANGED <<heap, recognizer, cache>>
    /\ UNCHANGED unitvars

\* return self._fallback_summary(text)
Fallback(p) ==
    /\ procs[p].kind = "summarize"
    /\ procs[p].pc = "fallback"
    /\ procs' = [procs EXCEPT ![p].result = fallback_summary(procs[p].text), ![p].pc = "done"]
    /\ UNCHANGED <<heap, recognizer, cache>>
    /\ UNCHANGED unitvars

NextSummarize == \E p \in DOMAIN procs : Enter(p) \/ Post(p) \/ Parse(p) \/ Fallback(p)

SpecSummarize == InitSummarize /\ [][NextSummarize]_vars

(***************************************************************************)
(* anonymize_text with a capability that is held to nothing: the entities  *)
(* ner_pipeline(text) returns carry any integer offsets, inside the text   *)
(* or not.                                                                 *)
(***************************************************************************)
\* the texts of this specification
CapabilityTexts == {"", "Ann", "123-45-6789"}

\* the offsets an entity may carry: from one before the text to one past it
AnyOffsets(s) == (0 - 1)..(Len(s) + 1)

AnyEntities(s) ==
    {[entity_group |-> g, start |-> a, end |-> b] :
        g \in RawLabels, a \in AnyOffsets(s), b \in AnyOffsets(s)}

InitCapability ==
    /\ text \in CapabilityTexts
    /\ manager = PlaceholderManager
    /\ spans = <<>>
    /\ log = <<>>
    /\ output = ""
    /\ pc = "regex"
    /\ history = <<>>
    /\ NoProcs

\* spans.extend(gather_ner_spans(text, manager, ner_pipeline)), whatever the
\* capability returned
GatherNerUnchecked ==
    /\ pc = "ner"
    /\ \E entities \in SeqsUpTo(AnyEntities(text), MaxEnt) :
          \E g \in {gather_ner_spans(text, manager, entities)} :
              /\ spans' = spans \o g.spans
              /\ manager' = g.manager
    /\ pc' = "apply"
    /\ UNCHANGED <<text, log, output, history>>
    /\ UNCHANGED procvars

NextCapability == GatherRegex \/ GatherNerUnchecked \/ ApplySpans

SpecCapability == InitCapability /\ [][NextCapability]_vars

(***************************************************************************)
(* The HTTP front-end (src/anonymization/app.py, src/app.py).  A payload   *)
(* is the text of the request.  The two parsers are modelled on the part   *)
(* of the two languages the payloads below are written in: JSON with       *)
(* unsigned integers, the three literals, strings without escapes, arrays  *)
(* and objects; XML with elements without attributes and character data    *)
(* without references.  Positions count from 0.                            *)
(***************************************************************************)
JsonWhitespace == {" ", "\t", "\n", "\r"}

RECURSIVE SkipWhitespace(_, _)
\* the first position from i on that holds no whitespace
SkipWhitespace(s, i) == IF CharAt(s, i) \in JsonWhitespace THEN SkipWhitespace(s, i + 1) ELSE i

RECURSIVE RunEnd(_, _, _)
\* the end of the run of characters of S that starts at i
RunEnd(s, i, S) == IF CharAt(s, i) \in S THEN RunEnd(s, i + 1, S) ELSE i

RECURSIVE Find(_, _, _)
\* str.find(c, i): the first position of c from i on, -1 when there is none
Find(s, c, i) ==
    IF i >= Len(s) THEN 0 - 1 ELSE IF CharAt(s, i) = c THEN i ELSE Find(s, c, i + 1)

\* a parser's answer: whether it succeeded, the value, the position after it
Parsed(val, pos) == [ok |-> TRUE, val |-> val, pos |-> pos]
NotParsed == [ok |-> FALSE, val |-> JNull, pos |-> 0]

RECURSIVE ParseValue(_, _)
RECURSIVE ParseItems(_, _, _)
RECURSIVE ParseEntries(_, _, _)

\* the elements of an array from position i on, up to its "]"
ParseItems(s, i, acc) ==
    The({IF ~v.ok THEN NotParsed
         ELSE The({IF CharAt(s, j) = "," THEN ParseItems(s, SkipWhitespace(s, j + 1), Append(acc, v.val))
                   ELSE IF CharAt(s, j) = "]" THEN Parsed(JList(Append(acc, v.val)), j + 1)
                   ELSE NotParsed
                   : j \in {SkipWhitespace(s, v.pos)}})
         : v \in {ParseValue(s, i)}})

\* the "key": value pairs of an object from position i on, up to its "}"
ParseEntries(s, i, acc) ==
    The({IF ~(key.ok /\ key.val.t = "str" /\ CharAt(s, SkipWhitespace(s, key.pos)) = ":")
         THEN NotParsed
         ELSE The({IF ~v.ok THEN NotParsed
                   ELSE The({IF CharAt(s, j) = ","
                             THEN ParseEntries(s, SkipWhitespace(s, j + 1),
                                               Append(acc, [key |-> key.val.v, val |-> v.val]))
                             ELSE IF CharAt(s, j) = "}"
                             THEN Parsed(JDict(Append(acc, [key |-> key.val.v, val |-> v.val])), j + 1)
                             ELSE NotParsed
                             : j \in {SkipWhitespace(s, v.pos)}})
                   : v \in {ParseValue(s, SkipWhitespace(s, SkipWhitespace(s, key.pos) + 1))}})
         : key \in {ParseValue(s, i)}})

\* the JSON value that starts at position i
ParseValue(s, i) ==
    The({CASE c = "\"" ->
                The({IF q < 0 THEN NotParsed ELSE Parsed(JStr(Slice(s, i + 1, q)), q + 1)
                     : q \in {Find(s, "\"", i + 1)}})
           [] c \in Digits ->
                The({Parsed(JNumber(Slice(s, i, e)), e)
                     : e \in {IF c = "0" THEN i + 1 ELSE RunEnd(s, i, Digits)}})
           [] c = "t" /\ Slice(s, i, i + 4) = "true" -> Parsed(JBool(TRUE), i + 4)
           [] c = "f" /\ Slice(s, i, i + 5) = "false" -> Parsed(JBool(FALSE), i + 5)
           [] c = "n" /\ Slice(s, i, i + 4) = "null" -> Parsed(JNull, i + 4)
           [] c = "[" ->
                The({IF CharAt(s, j) = "]" THEN Parsed(JList(<<>>), j + 1)
                     ELSE ParseItems(s, j, <<>>)
                     : j \in {SkipWhitespace(s, i + 1)}})
           [] c = "{" ->
                The({IF CharAt(s, j) = "}" THEN Parsed(JDict(<<>>), j + 1)
                     ELSE ParseEntries(s, j, <<>>)
                     : j \in {SkipWhitespace(s, i + 1)}})
           [] OTHER -> NotParsed
         : c \in {CharAt(s, i)}})

\* json.loads(text): one value, with nothing but whitespace around it
JsonDocument(s) ==
    The({IF v.ok /\ SkipWhitespace(s, v.pos) >= Len(s)
         THEN [wellformed |-> TRUE, value |-> v.val]
         ELSE [wellformed |-> FALSE, value |-> JNull]
         : v \in {ParseValue(s, SkipWhitespace(s, 0))}})

RECURSIVE ParseElement(_, _)
RECURSIVE ParseContent(_, _, _, _)

\* the content of the element `tag` from position i on, up to its end tag
ParseContent(s, i, tag, acc) ==
    IF i >= Len(s) THEN NotParsed
    ELSE IF CharAt(s, i) = "<" /\ CharAt(s, i + 1) = "/"
    THEN The({IF Slice(s, i + 2, e) = tag /\ CharAt(s, e) = ">"
              THEN Parsed(XElement(tag, <<>>, acc), e + 1)
              ELSE NotParsed
              : e \in {RunEnd(s, i + 2, Letters)}})
    ELSE IF CharAt(s, i) = "<"
    THEN The({IF ~child.ok THEN NotParsed
              ELSE ParseContent(s, child.pos, tag, Append(acc, child.val))
              : child \in {ParseElement(s, i)}})
    ELSE The({IF e < 0 \/ Find(Slice(s, i, e), "&", 0) >= 0 THEN NotParsed
              ELSE ParseContent(s, e, tag, Append(acc, XText(Slice(s, i, e))))
              : e \in {Find(s, "<", i)}})

\* the element whose start tag is at position i
ParseElement(s, i) ==
    The({IF CharAt(s, i) # "<" \/ e = i + 1 THEN NotParsed
         ELSE IF Slice(s, e, e + 2) = "/>" THEN Parsed(XElement(Slice(s, i + 1, e), <<>>, <<>>), e + 2)
         ELSE IF CharAt(s, e) = ">" THEN ParseContent(s, e + 1, Slice(s, i + 1, e), <<>>)
         ELSE NotParsed
         : e \in {RunEnd(s, i + 1, Letters)}})

\* what ET.fromstring(text) reads: one element, with nothing but whitespace
\* around it
XmlDocument(s) ==
    The({IF x.ok /\ SkipWhitespace(s, x.pos) >= Len(s)
         THEN [wellformed |-> TRUE, root |-> x.val]
         ELSE [wellformed |-> FALSE, root |-> XElement("a", <<>>, <<>>)]
         : x \in {ParseElement(s, SkipWhitespace(s, 0))}})

\* the content anonymize_document is handed under a content type
ContentOf(s, content_type) ==
    IF content_type = "json" THEN JsonDocument(s)
    ELSE IF content_type = "xml" THEN XmlDocument(s)
    ELSE [wellformed |-> TRUE, text |-> s]

\* the texts pasted or uploaded
Payloads ==
    {"4111111111111111", " 4111111111111111\n", "4111 1111 1111 1111", "0123", "123-45-6789",
     "true", "null", "\"John\"", "[\"John\", 42]", "{\"b\": \"John\", \"c\": [null]}", "[1, ]",
     "<a>John</a>", "<a><b>Ann</b> said hi John</a>", "<a>John", "<a/>", "John", "  "}

\* the names of uploaded files; "" is a request without a file
Filenames == {"", "data.json", "data.xml", "page.html", "notes.txt"}

\* Path(filename).suffix.lower() of the names above
Suffix(filename) ==
    IF Find(filename, ".", 0) < 0 THEN ""
    ELSE Slice(filename, Find(filename, ".", 0), Len(filename))

\* mutant of detect_content_type: a payload that parses as JSON is "json" only
\* when it is a string, an array or an object
detect_content_type_ScalarsAreText(filename, s) ==
    IF filename # "" /\ Suffix(filename) = ".json" THEN "json"
    ELSE IF filename # "" /\ Suffix(filename) \in {".xml", ".html"} THEN "xml"
    ELSE IF strip(s) = "" THEN "text"
    ELSE IF JsonDocument(strip(s)).wellformed
            /\ JsonDocument(strip(s)).value.t \in {"str", "list", "dict"} THEN "json"
    ELSE IF XmlDocument(strip(s)).wellformed THEN "xml"
    ELSE "text"

\* detect_content_type(filename, text)
detect_content_type(filename, s) ==
    IF filename # "" /\ Suffix(filename) = ".json" THEN "json"
    ELSE IF filename # "" /\ Suffix(filename) \in {".xml", ".html"} THEN "xml"
    ELSE IF strip(s) = "" THEN "text"
    ELSE IF JsonDocument(strip(s)).wellformed THEN "json"
    ELSE IF XmlDocument(strip(s)).wellformed THEN "xml"
    ELSE "text"

\* get_source_text(req): an uploaded file is read as it is, a pasted text is
\* stripped
get_source_text(s, filename) == IF filename # "" THEN s ELSE strip(s)

\* procs[p] is one POST request to index: its text and file name, its position
\* (start, detected, done), and the locals of index
Request(s, filename) ==
    [kind |-> "request", text |-> get_source_text(s, filename), filename |-> filename, pc |-> "start",
     detected_type |-> "", anonymized_text |-> "", mappings |-> <<>>, error |-> ""]

InitFrontend ==
    /\ NoUnit
    /\ pc = "frontend"
    /\ heap = <<>>
    /\ \E s \in Payloads, filename \in Filenames : procs = <<Request(s, filename)>>
    /\ recognizer \in {r \in Recognizers : r.failOn = {}}
    /\ cache = [value |-> 0, constructed |-> 0]

\* index, up to the call of anonymize_document: blank text is refused, else the
\* content type is detected
Detect(p) ==
    /\ procs[p].kind = "request"
    /\ procs[p].pc = "start"
    /\ procs' = [procs EXCEPT
          ![p].error = IF strip(procs[p].text) = ""
                       THEN "Please provide a file or paste content to anonymize." ELSE "",
          ![p].detected_type = IF strip(procs[p].text) = "" THEN ""
                               ELSE detect_content_type(procs[p].filename, procs[p].text),
          ![p].pc = IF strip(procs[p].text) = "" THEN "done" ELSE "detected"]
    /\ UNCHANGED <<heap, recognizer, cache>>
    /\ UNCHANGED unitvars

\* anonymized_text, manager = anonymize_document(original_text, detected_type)
\* and mappings = format_mapping(list(manager.items())), inside the try
Anonymize(p) ==
    /\ procs[p].kind = "request"
    /\ procs[p].pc = "detected"
    /\ \E l \in {load_ner_pipeline(cache, recognizer)}, a \in {NewManager(heap)} :
          \E r \in {WalkDocument(ContentOf(procs[p].text, procs[p].detected_type),
                                 procs[p].detected_type, Walking(PlaceholderManager), l.ret)} :
             /\ cache' = l.cache
             /\ heap' = [a.heap EXCEPT ![a.ref] = r.manager]
             /\ procs' = [procs EXCEPT
                   ![p].anonymized_text = IF r.exc = "" THEN r.ret ELSE "",
                   ![p].mappings = IF r.exc = "" THEN items(r.manager) ELSE <<>>,
                   ![p].error = IF r.exc = "" THEN ""
                                ELSE "Failed to anonymize document: " \o r.exc,
                   ![p].pc = "done"]
    /\ UNCHANGED recognizer
    /\ UNCHANGED unitvars

NextFrontend == \E p \in DOMAIN procs : Detect(p) \/ Anonymize(p)

SpecFrontend == InitFrontend /\ [][NextFrontend]_vars

(***************************************************************************)
(* Properties.                                                             *)
(***************************************************************************)
Overlap(a, b) == a.start < b.end /\ b.start < a.end

SameBounds(a, b) == a.start = b.start /\ a.end = b.end

\* the range of span x is one of the ranges apply_spans substitutes
RangeEmitted(s, sp, x) ==
    \E k \in 1..Len(Emitted(s, sp)) : SameBounds(Emitted(s, sp)[k], x)

\* C1: on one registry, every get(L, V) returns what the first get(L, V) returned,
\* and get(L, V1) and get(L, V2) return different strings when V1 # V2 (values
\* compared exactly: case and whitespace count).
C1_PlaceholderIdentity ==
    \A i, j \in 1..Len(history) :
        history[i].label = history[j].label
            => ((history[i].value = history[j].value) <=> (history[i].ret = history[j].ret))

\* C1 witness: a key requested twice, and two values of one label that differ
\* only in case or in trailing whitespace
C1_Witness ==
    /\ \E i, j \in 1..Len(history) :
          i < j /\ history[i].label = history[j].label /\ history[i].value = history[j].value
    /\ \E i, j \in 1..Len(history) :
          /\ history[i].label = history[j].label
          /\ history[i].value = "John"
          /\ history[j].value \in {"john", "John "}

\* C2: the source ranges [start, end) of the replacements apply_spans emits are
\* pairwise non-overlapping.
C2_EmittedDisjoint ==
    pc = "done" =>
        LET em == Emitted(text, spans)
        IN  \A i, j \in 1..Len(em) : i # j => ~Overlap(em[i], em[j])

\* C2 witness: two replacements emitted and an overlapping proposal skipped
C2_Witness ==
    /\ pc = "done"
    /\ Len(Emitted(text, spans)) >= 2
    /\ \E k \in 1..Len(spans) : ~RangeEmitted(text, spans, spans[k])

\* the text with each range of `em` replaced by its replacement, built offset by
\* offset: the replacement at the start of a range, nothing inside it, the
\* character itself elsewhere
RECURSIVE C3_Rebuild(_, _, _)
C3_Rebuild(s, em, p) ==
    IF p >= Len(s) THEN ""
    ELSE LET at == {k \in 1..Len(em) : em[k].start = p}
             piece == IF at # {} THEN em[CHOOSE k \in at : TRUE].repl
                      ELSE IF \E k \in 1..Len(em) : em[k].start < p /\ p < em[k].end THEN ""
                      ELSE CharAt(s, p)
         IN  piece \o C3_Rebuild(s, em, p + 1)

\* the offsets of `out` at which character c stands
C3_Places(out, c) == {q \in 0..(Len(out) - 1) : CharAt(out, q) = c}

\* C3: the output is the input with exactly the emitted ranges replaced; every
\* character outside the emitted ranges is in the output once, and these
\* characters keep their order; a character inside an emitted range is gone.
C3_FrameOutsideEmitted ==
    pc = "done" =>
        LET em == Emitted(text, spans)
            covered(p) == \E k \in 1..Len(em) : em[k].start <= p /\ p < em[k].end
            place(p) == CHOOSE q \in C3_Places(output, CharAt(text, p)) : TRUE
        IN  /\ output = C3_Rebuild(text, em, 0)
            /\ \A p \in 0..(Len(text) - 1) :
                  Cardinality(C3_Places(output, CharAt(text, p))) = IF covered(p) THEN 0 ELSE 1
            /\ \A p, q \in 0..(Len(text) - 1) :
                  (p < q /\ ~covered(p) /\ ~covered(q)) => place(p) < place(q)

\* C3 witness: a replacement emitted, a proposal skipped, and characters left
\* untouched before and after the replacement
C3_Witness ==
    /\ pc = "done"
    /\ \E k \in 1..Len(spans) : ~RangeEmitted(text, spans, spans[k])
    /\ \E k \in 1..Len(Emitted(text, spans)) :
          Emitted(text, spans)[k].start > 0 /\ Emitted(text, spans)[k].end < Len(text)

\* C4 as stated: of two overlapping proposals the one that starts earlier is
\* emitted and the one that starts later is not, whatever else is in the list.
C4_EarlierAlwaysWins ==
    pc = "done" =>
        \A i, j \in 1..Len(spans) :
            (Overlap(spans[i], spans[j]) /\ spans[i].start < spans[j].start)
                => (RangeEmitted(text, spans, spans[i]) /\ ~RangeEmitted(text, spans, spans[j]))

\* C4 amended: of two overlapping proposals the later-starting one is never
\* emitted when the earlier-starting one is; and the earlier-starting one is
\* emitted unless it starts inside (or at the start of) a span emitted before it.
C4_EarlierWinsUnlessSkipped ==
    pc = "done" =>
        LET em == Emitted(text, spans)
        IN  \A i, j \in 1..Len(spans) :
                (Overlap(spans[i], spans[j]) /\ spans[i].start < spans[j].start)
                    => IF RangeEmitted(text, spans, spans[i])
                       THEN ~RangeEmitted(text, spans, spans[j])
                       ELSE \E k \in 1..Len(em) :
                               em[k].start <= spans[i].start /\ spans[i].start < em[k].end

\* C4 witness: an earlier-starting proposal that loses to a later-starting one it
\* overlaps, having itself been skipped; and one that wins
C4_Witness ==
    /\ pc = "done"
    /\ \E i, j \in 1..Len(spans) :
          /\ Overlap(spans[i], spans[j]) /\ spans[i].start < spans[j].start
          /\ ~RangeEmitted(text, spans, spans[i]) /\ RangeEmitted(text, spans, spans[j])
    /\ \E i, j \in 1..Len(spans) :
          /\ Overlap(spans[i], spans[j]) /\ spans[i].start < spans[j].start
          /\ RangeEmitted(text, spans, spans[i]) /\ ~RangeEmitted(text, spans, spans[j])

\* C5: longest match: of two proposals with the same start and different ends the
\* shorter one is not the one substituted.
C5_LongestKept ==
    pc = "done" =>
        \A i, j \in 1..Len(spans) :
            (spans[i].start = spans[j].start /\ spans[i].end < spans[j].end)
                => ~RangeEmitted(text, spans, spans[i])

\* the regex candidates accepted so far, as indices of the log
Accepted == {k \in 1..Len(log) : log[k].verdict = "accepted"}

\* candidate k lies inside the range of a candidate accepted before it
InsideEarlierAccepted(k) ==
    \E j \in Accepted : j < k /\ log[k].start >= log[j].start /\ log[k].end <= log[j].end

\* the label under which the registry issued placeholder ph
IssuedUnder(ph, label) ==
    \E k \in 1..Len(manager.lookup) : manager.lookup[k].ph = ph /\ manager.lookup[k].key[1] = label

\* the string ph occurs in out
Occurs(ph, out) == \E q \in 0..(Len(out) - Len(ph)) : Slice(out, q, q + Len(ph)) = ph

PatternLabels == {"SSN", "CREDIT_CARD", "EMAIL", "PHONE", "DOB"}

\* C6: of the spans with one (start, end) the first in the list supplies the
\* replacement, in the dict and in the output; the pattern spans come first in
\* anonymize_text's list, so a pattern placeholder beats an entity placeholder
\* proposed for the same bounds.
C6_FirstOfEqualBoundsWins ==
    pc = "done" =>
        LET norm == Normalize(spans, 1, <<>>)
            em == Emitted(text, spans)
            nre == Cardinality(Accepted)
        IN  /\ \A i \in 1..Len(spans) :
                  (\A j \in 1..(i - 1) : ~SameBounds(spans[j], spans[i]))
                      => /\ \E k \in 1..Len(norm) : norm[k] = spans[i]
                         /\ \A k \in 1..Len(norm) :
                               SameBounds(norm[k], spans[i]) => norm[k].repl = spans[i].repl
                         /\ \A k \in 1..Len(em) :
                               SameBounds(em[k], spans[i]) => em[k].repl = spans[i].repl
            /\ \A i \in 1..nre : \A j \in (nre + 1)..Len(spans) :
                  SameBounds(spans[i], spans[j])
                      => /\ \E l \in PatternLabels : IssuedUnder(spans[i].repl, l)
                         /\ \A k \in 1..Len(em) :
                               SameBounds(em[k], spans[i])
                                   => /\ em[k].repl = spans[i].repl
                                      /\ Occurs(spans[i].repl, output)
                         /\ (\A k \in 1..Len(em) : em[k].repl # spans[j].repl)
                               => ~Occurs(spans[j].repl, output)

\* C6 witness: the entity detector proposed the bounds of a pattern span under
\* another placeholder, and the output carries the pattern's placeholder
C6_Witness ==
    /\ pc = "done"
    /\ \E i \in 1..Cardinality(Accepted) : \E j \in (Cardinality(Accepted) + 1)..Len(spans) :
          /\ SameBounds(spans[i], spans[j])
          /\ spans[i].repl # spans[j].repl
          /\ RangeEmitted(text, spans, spans[i])
          /\ Occurs(spans[i].repl, output)
          /\ ~Occurs(spans[j].repl, output)

\* C7: no character of a range matched by the SSN, CREDIT_CARD or EMAIL rule is
\* replaced by a PHONE placeholder in the output of anonymize_text.
C7_NoPhoneOverSpecificMatch ==
    pc = "done" =>
        \A k \in 1..Len(log) :
            log[k].label \in {"SSN", "CREDIT_CARD", "EMAIL"}
                => \A e \in 1..Len(Emitted(text, spans)) :
                       IssuedUnder(Emitted(text, spans)[e].repl, "PHONE")
                           => ~Overlap(Emitted(text, spans)[e], log[k])

\* ddd-dd-dddd
SSNShaped(s) ==
    /\ Len(s) = 11
    /\ \A p \in 0..10 : IF p \in {3, 6} THEN CharAt(s, p) = "-" ELSE CharAt(s, p) \in Digits

\* C8: for a text unit that is exactly an SSN-shaped string the pattern detector
\* returns the one span [SSN_1] over the whole unit; the PHONE candidate over the
\* same range is skipped as contained, and the registry holds no PHONE key.
C8_SSNNotPhone ==
    (pc # "regex" /\ SSNShaped(text)) =>
        /\ \E k \in 1..Len(log) :
              log[k] = [label |-> "SSN", start |-> 0, end |-> 11, value |-> text,
                        verdict |-> "accepted"]
        /\ \E k \in 1..Len(log) :
              log[k] = [label |-> "PHONE", start |-> 0, end |-> 11, value |-> text,
                        verdict |-> "contained"]
        /\ Cardinality(Accepted) = 1
        /\ spans[1] = [start |-> 0, end |-> 11, repl |-> "[SSN_1]"]
        /\ pc = "ner" => spans = <<[start |-> 0, end |-> 11, repl |-> "[SSN_1]"]>>
        /\ \A k \in 1..Len(manager.lookup) : manager.lookup[k].key[1] # "PHONE"
        /\ \A k \in 1..Len(spans) : ~IssuedUnder(spans[k].repl, "PHONE")
        /\ pc = "done" => ~Occurs("[PHONE_", output)

\* C8 witness: the SSN-shaped unit after the pattern detector has run
C8_Witness ==
    /\ pc = "ner"
    /\ SSNShaped(text)
    /\ \E k \in 1..Len(log) : log[k].label = "PHONE" /\ log[k].verdict = "contained"

\* position of a rule in PII_REGEXES
RuleIndex(label) == CHOOSE k \in 1..Len(PII_REGEXES) : PII_REGEXES[k].label = label

\* the candidates are examined rule by rule in declaration order, each rule's
\* matches from left to right
C9_InDeclarationOrder ==
    \A k, k2 \in 1..Len(log) :
        k < k2 =>
            /\ RuleIndex(log[k].label) <= RuleIndex(log[k2].label)
            /\ log[k].label = log[k2].label => log[k].end <= log[k2].start

\* every accepted candidate is a span, in order, under the registry's
\* placeholder for its (label, value)
C9_AcceptedAreSpans ==
    /\ Len(spans) >= Cardinality(Accepted)
    /\ \A k \in Accepted :
          LET r == Cardinality({j \in Accepted : j <= k})
          IN  /\ HasKey(manager.lookup, <<log[k].label, log[k].value>>)
              /\ spans[r] = [start |-> log[k].start, end |-> log[k].end,
                             repl |-> LookupValue(manager.lookup, <<log[k].label, log[k].value>>)]

\* C9 as stated: a candidate is skipped exactly when its range lies inside the
\* range of a match accepted before it.
C9_SkippedIffContained ==
    pc # "regex" =>
        /\ C9_InDeclarationOrder
        /\ C9_AcceptedAreSpans
        /\ \A k \in 1..Len(log) : (k \notin Accepted) <=> InsideEarlierAccepted(k)

\* C9 amended: a candidate is skipped exactly when its range lies inside the
\* range of a match accepted before it, or it is a PHONE candidate with 12 or
\* more digits; every other candidate, partial overlaps included, is accepted,
\* gets its placeholder from the registry and is in the returned list.
C9_SkippedIffContainedOrLongPhone ==
    pc # "regex" =>
        /\ C9_InDeclarationOrder
        /\ C9_AcceptedAreSpans
        /\ \A k \in 1..Len(log) :
              (k \notin Accepted)
                  <=> \/ InsideEarlierAccepted(k)
                      \/ log[k].label = "PHONE" /\ DigitCount(log[k].value) >= 12

\* C9 witness: a candidate accepted although it overlaps an earlier accepted
\* match in part, next to a candidate skipped as contained
C9_Witness ==
    /\ pc = "ner"
    /\ \E k \in Accepted : \E j \in Accepted :
          j < k /\ Overlap(log[j], log[k]) /\ ~InsideEarlierAccepted(k)
    /\ \E k \in 1..Len(log) : log[k].verdict = "contained"

\* C10: a PHONE candidate with 12 or more digits gives no span and no registry
\* entry and claims nothing: a later candidate inside its range is judged against
\* the accepted matches only.  A PHONE candidate with fewer than 12 digits that
\* is not inside a claimed range is accepted.
C10_LongPhoneRejected ==
    pc # "regex" =>
        \A k \in 1..Len(log) :
            log[k].label = "PHONE" =>
                IF DigitCount(log[k].value) >= 12
                THEN /\ k \notin Accepted
                     /\ ~HasKey(manager.lookup, <<"PHONE", log[k].value>>)
                     /\ \A r \in 1..Len(spans) :
                           SameBounds(spans[r], log[k]) => ~IssuedUnder(spans[r].repl, "PHONE")
                     /\ \A k2 \in (k + 1)..Len(log) :
                           (log[k2].start >= log[k].start /\ log[k2].end <= log[k].end)
                               => (k2 \in Accepted <=> ~InsideEarlierAccepted(k2))
                ELSE InsideEarlierAccepted(k)
                        \/ /\ k \in Accepted
                           /\ HasKey(manager.lookup, <<"PHONE", log[k].value>>)

\* C10 witness: a PHONE candidate rejected for its 12 digits, standing outside
\* every claimed range, with a later candidate inside its range accepted
C10_Witness ==
    /\ pc = "ner"
    /\ \E k \in 1..Len(log) :
          /\ log[k].label = "PHONE" /\ log[k].verdict = "digits"
          /\ DigitCount(log[k].value) = 12
          /\ \E k2 \in Accepted :
                k2 > k /\ log[k2].start >= log[k].start /\ log[k2].end <= log[k].end

\* the keys of label `label` in the lookup table
KeysOfLabel(lookup, label) == {k \in 1..Len(lookup) : lookup[k].key[1] = label}

\* C11: the first get for a new (label, value) key returns "[LABEL_n]" with n one
\* more than the number of keys of that label added before (so 1 for the first),
\* adds that one entry to the lookup table and moves only the counter of that
\* label, to n; a get for an existing key returns the stored string and leaves
\* every counter and the lookup table as they were.
C11_CounterPerLabel ==
    [][(pc = "registry" /\ Len(history') = Len(history) + 1) =>
        LET c == history'[Len(history')]
            n == Cardinality(KeysOfLabel(manager.lookup, c.label))
            old == {k \in 1..Len(manager.lookup) : manager.lookup[k].key = <<c.label, c.value>>}
        IN  IF old # {}
            THEN /\ manager' = manager
                 /\ \A k \in old : c.ret = manager.lookup[k].ph
            ELSE /\ c.ret = "[" \o c.label \o "_" \o ToString(n + 1) \o "]"
                 /\ manager'.lookup =
                        Append(manager.lookup, [key |-> <<c.label, c.value>>, ph |-> c.ret])
                 /\ DOMAIN manager'.counters = (DOMAIN manager.counters) \cup {c.label}
                 /\ manager'.counters[c.label] = n + 1
                 /\ \A l \in (DOMAIN manager.counters) \ {c.label} :
                        manager'.counters[l] = manager.counters[l]]_vars

\* C11 witness: a key of one label, the same key again, then a second value of
\* that label numbered 2, and a first key of another label numbered 1
C11_Witness ==
    /\ pc = "registry"
    /\ \E i, j, k \in 1..Len(history) :
          /\ i < j /\ j < k
          /\ history[i].label = history[j].label /\ history[i].value = history[j].value
          /\ history[k].label = history[i].label /\ history[k].value # history[i].value
          /\ history[k].ret = "[" \o history[k].label \o "_2]"
    /\ \E i, k \in 1..Len(history) :
          /\ i < k
          /\ history[k].label # history[i].label
          /\ history[k].ret = "[" \o history[k].label \o "_1]"

\* C12: no two documents are processed against the same PlaceholderManager
\* object, whichever entry point (anonymize_document, main) processes them.
C12_RegistryPerDocument ==
    \A p, q \in DOMAIN procs :
        \A i \in 1..Len(procs[p].processed), j \in 1..Len(procs[q].processed) :
            (p # q \/ i # j) => procs[p].processed[i].manager # procs[q].processed[j].manager


RECURSIVE C13_Preserved(_, _)
\* value `out` has the shape of value `in`: lists of the same length, dicts with
\* the same keys in the same order, the same numbers, booleans and nulls, and a
\* string where there was a string
C13_Preserved(in, out) ==
    CASE in.t = "str" -> out.t = "str"
      [] in.t = "list" ->
            /\ out.t = "list"
            /\ Len(out.items) = Len(in.items)
            /\ \A k \in 1..Len(in.items) : C13_Preserved(in.items[k], out.items[k])
      [] in.t = "dict" ->
            /\ out.t = "dict"
            /\ Len(out.entries) = Len(in.entries)
            /\ \A k \in 1..Len(in.entries) :
                  /\ out.entries[k].key = in.entries[k].key
                  /\ C13_Preserved(in.entries[k].val, out.entries[k].val)
      [] OTHER -> out = in

RECURSIVE StringLeaves(_)
RECURSIVE StringLeavesOf(_, _)
\* the string leaves of a JSON value, in reading order
StringLeaves(value) ==
    CASE value.t = "str" -> <<value.v>>
      [] value.t = "list" -> StringLeavesOf([k \in 1..Len(value.items) |-> value.items[k]], 1)
      [] value.t = "dict" ->
            StringLeavesOf([k \in 1..Len(value.entries) |-> value.entries[k].val], 1)
      [] OTHER -> <<>>

StringLeavesOf(values, k) ==
    IF k > Len(values) THEN <<>> ELSE StringLeaves(values[k]) \o StringLeavesOf(values, k + 1)

\* the calls of anonymize_document on JSON content whose walk came to its end
JsonWalked == {p \in DOMAIN procs : /\ procs[p].kind = "document"
                                    /\ procs[p].content_type = "json"
                                    /\ procs[p].pc \in {"return", "done"}}

\* C13: the value anonymize_json_value returns has the shape of its input (lists
\* keep length and order, dicts keep their keys in order, numbers, booleans and
\* nulls are unchanged) and its string leaves are, in order, the results of
\* anonymize_text on the string leaves of the input.
C13_JsonShapePreserved ==
    \A p \in JsonWalked :
        LET in == procs[p].content.value
            out == procs[p].walk.tree
            units == procs[p].walk.units
        IN  /\ C13_Preserved(in, out)
            /\ StringLeaves(in) = [k \in 1..Len(units) |-> units[k].text]
            /\ StringLeaves(out) = [k \in 1..Len(units) |-> units[k].out]

\* C13 witness: a dict whose key "John" is kept while the string "John" under
\* it is replaced, next to a number that is returned as it was
C13_Witness ==
    /\ \E p \in JsonWalked :
          /\ procs[p].content.value =
                JDict(<<[key |-> "John", val |-> JStr("John")], [key |-> "b", val |-> JInt(42)]>>)
          /\ procs[p].walk.tree =
                JDict(<<[key |-> "John", val |-> JStr("[PERSON_1]")], [key |-> "b", val |-> JInt(42)]>>)


\* the calls of anonymize_document on XML content whose walk came to its end
XmlWalked == {p \in DOMAIN procs : /\ procs[p].kind = "document"
                                   /\ procs[p].content_type = "xml"
                                   /\ procs[p].pc \in {"return", "done"}}

RECURSIVE TextAndTails(_)
RECURSIVE TextAndTailsOf(_, _)
\* the non-empty texts and tails of the nodes of a tree: of each node its text,
\* its tail, then those of its descendants
TextAndTails(node) ==
    (IF node.text # "" THEN <<node.text>> ELSE <<>>)
    \o (IF node.tail # "" THEN <<node.tail>> ELSE <<>>)
    \o TextAndTailsOf(node.children, 1)

TextAndTailsOf(children, k) ==
    IF k > Len(children) THEN <<>>
    ELSE TextAndTails(children[k]) \o TextAndTailsOf(children, k + 1)

\* the label of a placeholder "[LABEL_n]": what stands before its last "_"
LabelPart(ph) ==
    LET last == CHOOSE i \in 1..Len(ph) :
                    /\ SubSeq(ph, i, i) = "_"
                    /\ \A j \in (i + 1)..Len(ph) : SubSeq(ph, j, j) # "_"
    IN  SubSeq(ph, 2, last - 1)

\* C14: in the XML walker every non-empty text and every non-empty tail of a node
\* is one text unit of its own, and all units are run against one registry: two
\* detections of the same value under the same label, in whichever units of the
\* document, carry the same placeholder.
C14_TextAndTailShareRegistry ==
    \A p \in XmlWalked :
        LET units == procs[p].walk.units
        IN  /\ [k \in 1..Len(units) |-> units[k].text]
                  = TextAndTails(fromstring(procs[p].content).ret)
            /\ [k \in 1..Len(units) |-> units[k].out] = TextAndTails(procs[p].walk.tree)
            /\ \A i, j \in 1..Len(units) :
                  \A a \in 1..Len(units[i].spans), b \in 1..Len(units[j].spans) :
                      LET x == units[i].spans[a]
                          y == units[j].spans[b]
                      IN  (/\ Slice(units[i].text, x.start, x.end)
                                = Slice(units[j].text, y.start, y.end)
                           /\ LabelPart(x.repl) = LabelPart(y.repl))
                          => x.repl = y.repl

\* C14 witness: <a><b>Ann<c>John</c>John</b></a>: the second person of the
\* document, John, occurs as the text of c and as the tail of c, and both are
\* replaced by [PERSON_2]
C14_Witness ==
    \E p \in XmlWalked :
        /\ Len(procs[p].walk.tree.children) = 1
        /\ Len(procs[p].walk.tree.children[1].children) = 1
        /\ procs[p].walk.tree.children[1].text = "[PERSON_1]"
        /\ procs[p].walk.tree.children[1].children[1].text = "[PERSON_2]"
        /\ procs[p].walk.tree.children[1].children[1].tail = "[PERSON_2]"


RECURSIVE MarkupOf(_)
RECURSIVE MarkupOfItems(_, _)
\* the nodes of a document as written, without its text runs: of an element its
\* tag, its attributes and the elements and comments in it, in order
MarkupOf(x) ==
    IF x.t = "comment" THEN [comment |-> x.v]
    ELSE [tag |-> x.tag, attrib |-> x.attrib, nodes |-> MarkupOfItems(x.items, 1)]

MarkupOfItems(its, k) ==
    IF k > Len(its) THEN <<>>
    ELSE (IF its[k].t = "text" THEN <<>> ELSE <<MarkupOf(its[k])>>) \o MarkupOfItems(its, k + 1)

RECURSIVE MarkupOfTree(_)
\* the same of the tree the output is written from
MarkupOfTree(node) ==
    [tag |-> node.tag, attrib |-> node.attrib,
     nodes |-> [k \in 1..Len(node.children) |-> MarkupOfTree(node.children[k])]]

\* C15: the document anonymize_xml_string returns has the nodes of the input
\* document, comments included, with the same tags and attributes in the same
\* tree shape; only text and tail runs differ.
C15_XmlMarkupUntouched ==
    \A p \in XmlWalked : MarkupOfTree(procs[p].walk.tree) = MarkupOf(procs[p].content.root)


\* the calls of anonymize_document on "xml" or "json" content that does not parse,
\* once the walker has been entered
Unparseable == {p \in DOMAIN procs : /\ procs[p].kind = "document"
                                     /\ procs[p].content_type \in {"xml", "json"}
                                     /\ ~procs[p].content.wellformed
                                     /\ procs[p].pc \notin {"start", "walk"}}

\* C16: a call of anonymize_document on "xml" or "json" content that cannot be
\* parsed ends in the parser's exception, whose qualified name holds the
\* content type; no text was handed to a detector, the registry of the call is
\* empty, and nothing is returned.
C16_ParseFailureFirst ==
    \A p \in Unparseable :
        /\ procs[p].pc = "raised"
        /\ procs[p].exc = (IF procs[p].content_type = "xml"
                           THEN "xml.etree.ElementTree.ParseError"
                           ELSE "json.decoder.JSONDecodeError")
        /\ Occurs(procs[p].content_type, procs[p].exc)
        /\ procs[p].walk.calls = <<>>
        /\ procs[p].walk.units = <<>>
        /\ heap[procs[p].manager] = [counters |-> <<>>, lookup |-> <<>>]
        /\ procs[p].walk.ret = ""
        /\ procs[p].result = <<>>

\* C16 witness: a call on XML content that does not parse has raised
C16_Witness ==
    \E p \in Unparseable : procs[p].content_type = "xml" /\ procs[p].pc = "raised"


\* the text units of the document of call p, in the order the walker meets them
AllUnits(p) ==
    IF procs[p].content_type = "xml" THEN TextAndTails(fromstring(procs[p].content).ret)
    ELSE IF procs[p].content_type = "json" THEN StringLeaves(procs[p].content.value)
    ELSE <<procs[p].content.text>>

\* the calls of anonymize_document on content that parses, after the walker ran
Walked == {p \in DOMAIN procs : /\ procs[p].kind = "document"
                                /\ procs[p].content.wellformed
                                /\ procs[p].pc \notin {"start", "walk"}}

\* the units of the document of call p on which the capability raises
Failing(p) == {k \in 1..Len(AllUnits(p)) : AllUnits(p)[k] \in procs[p].ner.failOn}

\* C17: when the capability raises on a text unit of the document, the call of
\* anonymize_document ends in that exception and returns nothing; the capability
\* was called once on each unit up to and including the first one it raises on
\* and on no unit after it.  When it raises on no unit the call returns.
C17_CapabilityFailurePropagates ==
    \A p \in Walked :
        IF Failing(p) = {}
        THEN procs[p].pc \in {"return", "done"} /\ procs[p].walk.calls = AllUnits(p)
        ELSE LET first == CHOOSE k \in Failing(p) : \A j \in Failing(p) : k <= j
             IN  /\ procs[p].pc = "raised"
                 /\ procs[p].exc = "CapabilityError"
                 /\ procs[p].walk.calls = SubSeq(AllUnits(p), 1, first)
                 /\ [k \in 1..Len(procs[p].walk.units) |-> procs[p].walk.units[k].text]
                       = SubSeq(AllUnits(p), 1, first - 1)
                 /\ procs[p].walk.ret = ""
                 /\ procs[p].result = <<>>

\* C17 witness: the capability raised on the third of four units of a document
C17_Witness ==
    \E p \in Walked :
        /\ procs[p].pc = "raised"
        /\ procs[p].exc = "CapabilityError"
        /\ Len(AllUnits(p)) = 4
        /\ Len(procs[p].walk.calls) = 3


\* C18: gather_ner_spans called with the capability configured as absent (None)
\* returns an empty span list and does not raise.
C18_AbsentCapabilityTolerated ==
    \A p \in DOMAIN procs :
        (procs[p].kind = "adapter" /\ procs[p].ner.t = "None" /\ procs[p].pc # "start")
            => (procs[p].pc = "done" /\ procs[p].exc = "" /\ procs[p].returned = <<>>)


\* C19: over any interleaving of calls of load_ner_pipeline the constructor of
\* the pipeline runs at most once and every call returns the same object.
C19_ConstructedOnce ==
    /\ cache.constructed <= 1
    /\ \A t, u \in DOMAIN procs :
          \A i \in 1..Len(procs[t].returned), j \in 1..Len(procs[u].returned) :
              procs[t].returned[i] = procs[u].returned[j]


\* what the call p of anonymize_document does when it runs alone
Alone(p) ==
    WalkDocument(procs[p].content, procs[p].content_type,
                 Walking([counters |-> <<>>, lookup |-> <<>>]), procs[p].ner)

\* C20: however the steps of several calls of anonymize_document interleave, no
\* two calls hold the same PlaceholderManager, and each call ends as it ends when
\* run alone: the same exception, or the same output with the same mappings in
\* its manager.
C20_CallsIndependent ==
    /\ \A p, q \in DOMAIN procs :
          (p # q /\ procs[p].manager # 0) => procs[p].manager # procs[q].manager
    /\ \A p \in DOMAIN procs :
          /\ procs[p].pc \in {"return", "done", "raised"} =>
                /\ procs[p].exc = Alone(p).exc
                /\ heap[procs[p].manager] = Alone(p).manager
                /\ procs[p].walk.ret = Alone(p).ret
          /\ procs[p].pc = "done" =>
                /\ procs[p].result.output = Alone(p).ret
                /\ heap[procs[p].result.manager] = Alone(p).manager

\* C20 witness: call 2 began first and has not returned yet, call 1 began after
\* it and has returned; they ran on different contents and each replaced its
\* person by [PERSON_1]
C20_Witness ==
    /\ pc = "concurrent"
    /\ procs[2].manager = 1 /\ procs[2].pc = "return"
    /\ procs[1].manager = 2 /\ procs[1].pc = "done"
    /\ procs[1].content = [wellformed |-> TRUE, text |-> "John"]
    /\ procs[2].content = [wellformed |-> TRUE, text |-> "Ann"]
    /\ procs[1].result.output = "[PERSON_1]"
    /\ procs[2].walk.ret = "[PERSON_1]"


\* the calls of anonymize_document that ran their walker to its end
Finished == {p \in DOMAIN procs : procs[p].kind = "document" /\ procs[p].pc \in {"return", "done"}}

\* C21: two calls of anonymize_document on the same content with the same
\* content type, each with its own registry and the same deterministic
\* recognizer, end alike: both raise the same exception, or both return the same
\* output and their managers hold the same (label, value) keys in the same order
\* with the same placeholders.
C21_SameInputSameResult ==
    \A p, q \in DOMAIN procs :
        (/\ procs[p].kind = "document" /\ procs[q].kind = "document"
         /\ procs[p].content_type = procs[q].content_type
         /\ procs[p].content = procs[q].content
         /\ procs[p].pc \in {"return", "done", "raised"}
         /\ procs[q].pc \in {"return", "done", "raised"})
        => /\ procs[p].exc = procs[q].exc
           /\ procs[p].walk.ret = procs[q].walk.ret
           /\ items(heap[procs[p].manager]) = items(heap[procs[q].manager])
           /\ (procs[p].pc = "done" /\ procs[q].pc = "done")
                 => procs[p].result.output = procs[q].result.output

\* C21 witness: two calls on the same XML document have returned; each holds a
\* manager of its own, and both replaced Ann and John by [PERSON_1] and
\* [PERSON_2]
C21_Witness ==
    /\ pc = "concurrent"
    /\ Finished = {1, 2}
    /\ procs[1].pc = "done" /\ procs[2].pc = "done"
    /\ procs[1].content_type = "xml"
    /\ procs[1].content = procs[2].content
    /\ procs[1].manager # procs[2].manager
    /\ procs[1].result.output = "<a x=\"John\"><b>[PERSON_1]</b> said hi [PERSON_2]</a>"
    /\ procs[2].result.output = procs[1].result.output
    /\ Len(items(heap[procs[1].manager])) = 2


\* C22: apply_spans(text, []) returns text, character for character, for every
\* text.
C22_NoSpansNoChange ==
    (pc = "done" /\ spans = <<>>) =>
        /\ Len(output) = Len(text)
        /\ \A j \in 0..(Len(text) - 1) : CharAt(output, j) = CharAt(text, j)

\* C22 witness: apply_spans returned "abcd" on the text "abcd" and no span
C22_Witness ==
    /\ pc = "done"
    /\ spans = <<>>
    /\ text = "abcd"
    /\ output = "abcd"


\* a text made of whitespace only
OnlyWhitespace(s) == s # "" /\ \A j \in 0..(Len(s) - 1) : CharAt(s, j) \in Whitespace

\* the units of the walk of call p that are made of whitespace only
BlankUnits(p) == {k \in 1..Len(procs[p].walk.units) : OnlyWhitespace(procs[p].walk.units[k].text)}

\* C23: a text unit made of whitespace only (a plain text, a text or tail run
\* of an XML document, a JSON string) is handed to both detectors, gets no span
\* from either and comes back unchanged, and it is never the unit an exception
\* leaves from; every entry of the registry was created for a span of a unit
\* that is not blank.
C23_BlankUnitUnchanged ==
    \A p \in Walked :
        LET w == procs[p].walk
        IN  /\ \A k \in BlankUnits(p) :
                  /\ w.units[k].spans = <<>>
                  /\ w.units[k].out = w.units[k].text
            /\ \A k \in 1..Len(w.calls) :
                  OnlyWhitespace(w.calls[k]) => (k <= Len(w.units) /\ w.units[k].text = w.calls[k])
            /\ w.exc = "" =>
                  \A e \in 1..Len(w.manager.lookup) :
                      \E k \in (1..Len(w.units)) \ BlankUnits(p) :
                          \E i \in 1..Len(w.units[k].spans) :
                              /\ w.units[k].spans[i].repl = w.manager.lookup[e].ph
                              /\ Slice(w.units[k].text, w.units[k].spans[i].start,
                                       w.units[k].spans[i].end) = w.manager.lookup[e].key[2]

\* C23 witness: an XML document whose root starts with a run of two spaces
\* before <b>Ann</b> was walked: the blank run went through anonymize_text and
\* is in the output as it was, and the only entry of the registry is Ann's
C23_Witness ==
    /\ pc = "document"
    /\ procs[1].pc = "done"
    /\ procs[1].content_type = "xml"
    /\ BlankUnits(1) = {1}
    /\ procs[1].walk.calls = <<"  ", "Ann">>
    /\ procs[1].result.output = "<a x=\"John\">  <b>[PERSON_1]</b></a>"
    /\ Len(heap[procs[1].manager].lookup) = 1


\* the calls of summarize with a configured endpoint whose call to it failed:
\* a transport error, an HTTP error status or an unexpected payload
CmlFailed == {p \in DOMAIN procs : /\ procs[p].kind = "summarize"
                                   /\ procs[p].config.t # "None"
                                   /\ procs[p].pc \in {"done", "raised"}
                                   /\ procs[p].response.kind # ""
                                   /\ summarize_via_cml(procs[p].response).exc # ""}

\* C24: when a CML endpoint is configured and the call to it fails, summarize
\* still returns the locally computed fallback summary of the (non-empty) text.
C24_FallsBackWhenCmlFails ==
    \A p \in CmlFailed :
        /\ procs[p].pc = "done"
        /\ procs[p].result = fallback_summary(procs[p].text)


\* C25: every span the two detectors hand to apply_spans satisfies
\* start < end and end <= len(text) for the text unit it was detected in,
\* whatever the capability returned.
C25_SpansWellFormed ==
    pc \in {"apply", "done"} =>
        \A k \in 1..Len(spans) : spans[k].start < spans[k].end /\ spans[k].end <= Len(text)


\* the labels the registry knows
LabelsOf(m) == (DOMAIN m.counters) \cup {m.lookup[k].key[1] : k \in 1..Len(m.lookup)}

\* the counter of each label is the number of keys of that label, and no two
\* entries have the same key or the same placeholder
C26_Consistent ==
    pc = "registry" =>
        /\ \A label \in LabelsOf(manager) :
              Counter(manager.counters, label) = Cardinality(KeysOfLabel(manager.lookup, label))
        /\ \A i, j \in 1..Len(manager.lookup) :
              i # j => /\ manager.lookup[i].key # manager.lookup[j].key
                       /\ manager.lookup[i].ph # manager.lookup[j].ph

\* a step keeps every entry as it is and where it is, and lowers no counter
C26_Grows ==
    pc = "registry" =>
        /\ Len(manager'.lookup) >= Len(manager.lookup)
        /\ \A k \in 1..Len(manager.lookup) : manager'.lookup[k] = manager.lookup[k]
        /\ \A label \in DOMAIN manager.counters :
              /\ label \in DOMAIN manager'.counters
              /\ manager'.counters[label] >= manager.counters[label]

\* C26: the registry only grows: over any sequence of get calls no entry is
\* removed or changed once created and no counter decreases, and in every
\* reachable state the counter of each label is the number of keys of that label
\* and the placeholders of the table are pairwise distinct, across labels too.
C26_RegistryOnlyGrows == [](C26_Consistent) /\ [][C26_Grows]_vars

\* C26 witness: after four get calls, one of them for a key already there, the
\* registry holds two keys of PERSON and one of PERSON_1
C26_Witness ==
    /\ pc = "registry"
    /\ Len(history) = 4
    /\ Len(manager.lookup) = 3
    /\ Counter(manager.counters, "PERSON") = 2
    /\ Counter(manager.counters, "PERSON_1") = 1
    /\ manager.lookup[3].ph = "[PERSON_1_1]"


RECURSIVE FirstRequests(_, _, _)
\* the keys of the get calls h[k..], without those of acc or met before, in the
\* order of the calls
FirstRequests(h, k, acc) ==
    IF k > Len(h) THEN acc
    ELSE FirstRequests(h, k + 1,
            IF \E i \in 1..Len(acc) : acc[i] = <<h[k].label, h[k].value>>
            THEN acc ELSE Append(acc, <<h[k].label, h[k].value>>))

\* C27: items() lists the (key, placeholder) pairs in the order in which their
\* keys were first requested, and the pair of the k-th distinct value of a label
\* carries the placeholder of ordinal k of that label, so along items() the
\* ordinals of each label are 1, 2, 3, ...
C27_ItemsInFirstSeenOrder ==
    pc = "registry" =>
        LET listed == items(manager)
            first == FirstRequests(history, 1, <<>>)
        IN  /\ Len(listed) = Len(first)
            /\ \A i \in 1..Len(listed) :
                  /\ listed[i].key = first[i]
                  /\ listed[i].ph =
                        "[" \o first[i][1] \o "_"
                        \o ToString(Cardinality({j \in 1..i : first[j][1] = first[i][1]})) \o "]"

\* C27 witness: SSN/John, PERSON/John, SSN/John again, PERSON/john were
\* requested: items() lists [SSN_1], [PERSON_1], [PERSON_2] in that order
C27_Witness ==
    /\ pc = "registry"
    /\ Len(history) = 4
    /\ history[1].label = "SSN" /\ history[3] = history[1]
    /\ [k \in 1..Len(items(manager)) |-> items(manager)[k].ph]
          = <<"[SSN_1]", "[PERSON_1]", "[PERSON_2]">>
    /\ items(manager)[3].key = <<"PERSON", "john">>


RECURSIVE iter(_)
RECURSIVE IterAll(_, _)
\* element.iter(): the element, then the elements inside it, in document order
iter(node) == <<node>> \o IterAll(node.children, 1)

IterAll(children, k) ==
    IF k > Len(children) THEN <<>> ELSE iter(children[k]) \o IterAll(children, k + 1)

RECURSIVE UnitsOfNodes(_, _)
\* of each node of the list its text and then its tail, the empty ones left out
UnitsOfNodes(nodes, k) ==
    IF k > Len(nodes) THEN <<>>
    ELSE (IF nodes[k].text # "" THEN <<nodes[k].text>> ELSE <<>>)
         \o (IF nodes[k].tail # "" THEN <<nodes[k].tail>> ELSE <<>>)
         \o UnitsOfNodes(nodes, k + 1)

RECURSIVE ReadingUnits(_)
RECURSIVE ReadingUnitsOf(_, _)
\* the text units of a tree in the order in which the serialized document
\* shows them: the text of a node, the units inside the node, then its tail
ReadingUnits(node) ==
    (IF node.text # "" THEN <<node.text>> ELSE <<>>)
    \o ReadingUnitsOf(node.children, 1)
    \o (IF node.tail # "" THEN <<node.tail>> ELSE <<>>)

ReadingUnitsOf(children, k) ==
    IF k > Len(children) THEN <<>>
    ELSE ReadingUnits(children[k]) \o ReadingUnitsOf(children, k + 1)

\* no node with a tail has a text unit inside it
NoTailAfterUnits(tree) ==
    \A k \in 1..Len(iter(tree)) :
        iter(tree)[k].tail # "" => ReadingUnitsOf(iter(tree)[k].children, 1) = <<>>

\* C28 as stated: the XML walker anonymizes the text units in document order:
\* a unit that precedes another in the serialized document is processed before
\* it.
C28_UnitsInReadingOrder ==
    \A p \in XmlWalked :
        procs[p].walk.calls = ReadingUnits(fromstring(procs[p].content).ret)

\* C28 amended: the XML walker anonymizes the text units in the order of
\* element.iter(): the elements in document order, of each element its text and
\* then its tail, before any unit inside the element.  The units are processed
\* in the order of the serialized document when no element with a tail has a
\* text unit inside it.
C28_UnitsInIterOrder ==
    \A p \in XmlWalked :
        LET tree == fromstring(procs[p].content).ret
        IN  /\ procs[p].walk.calls = UnitsOfNodes(iter(tree), 1)
            /\ NoTailAfterUnits(tree) => procs[p].walk.calls = ReadingUnits(tree)

\* C28 witness: <a x="John"><b><c>Ann</c></b>John</a>: the tail John of b is
\* anonymized before the text Ann of c, which stands before it in the document,
\* so the first person in reading order carries [PERSON_2]
C28_Witness ==
    /\ pc = "document"
    /\ procs[1].pc = "done"
    /\ procs[1].content_type = "xml"
    /\ procs[1].walk.calls = <<"John", "Ann">>
    /\ procs[1].result.output = "<a x=\"John\"><b><c>[PERSON_2]</c></b>[PERSON_1]</a>"


\* the key under which the span x of the unit text s was registered
KeyOfSpan(s, x) == <<LabelPart(x.repl), Slice(s, x.start, x.end)>>

\* the registry holds the placeholder of span x of the unit text s under the
\* label of x and the exact substring x covers
Registered(m, s, x) ==
    /\ HasKey(m.lookup, KeyOfSpan(s, x))
    /\ LookupValue(m.lookup, KeyOfSpan(s, x)) = x.repl

\* the keys of all spans the detectors proposed in the units of a walk
ProposedKeys(units) ==
    UNION {{KeyOfSpan(units[k].text, units[k].spans[i]) : i \in 1..Len(units[k].spans)}
           : k \in 1..Len(units)}

\* C29: registry entries are created when a span is detected, before overlaps
\* are resolved: in the result of anonymize_document every substituted
\* placeholder is the registry's value for the label and the exact substring of
\* the span it replaced, and every span that was proposed, substituted or
\* dropped by apply_spans, has its entry and has consumed an ordinal of its
\* label.
C29_MintedAtDetection ==
    \A p \in Walked :
        procs[p].pc \in {"return", "done"} =>
            LET units == procs[p].walk.units
                m == heap[procs[p].manager]
            IN  /\ \A k \in 1..Len(units) :
                      /\ \A i \in 1..Len(Emitted(units[k].text, units[k].spans)) :
                            Registered(m, units[k].text,
                                       Emitted(units[k].text, units[k].spans)[i])
                      /\ \A i \in 1..Len(units[k].spans) :
                            Registered(m, units[k].text, units[k].spans[i])
                /\ {m.lookup[e].key : e \in 1..Len(m.lookup)} = ProposedKeys(units)
                /\ \A label \in LabelsOf(m) :
                      Counter(m.counters, label)
                          = Cardinality({key \in ProposedKeys(units) : key[1] = label})

\* C29 witness: the JSON list ["John@b.co", "Ann"]: John is detected inside the
\* e-mail address and registered as [PERSON_1], its span is dropped in favour of
\* [EMAIL_1], and Ann is [PERSON_2]: the mapping holds [PERSON_1], the output
\* does not, and the only PERSON ordinal in the output is 2
C29_Witness ==
    /\ pc = "document"
    /\ procs[1].pc = "done"
    /\ procs[1].content_type = "json"
    /\ procs[1].walk.calls = <<"John@b.co", "Ann">>
    /\ Occurs("[EMAIL_1]", procs[1].result.output)
    /\ Occurs("[PERSON_2]", procs[1].result.output)
    /\ ~Occurs("[PERSON_1]", procs[1].result.output)
    /\ HasKey(heap[procs[1].result.manager].lookup, <<"PERSON", "John">>)
    /\ LookupValue(heap[procs[1].result.manager].lookup, <<"PERSON", "John">>) = "[PERSON_1]"


\* the requests of the front-end that carry pasted content and were answered
PastedDone == {p \in DOMAIN procs : procs[p].kind = "request" /\ procs[p].pc = "done"
                                    /\ procs[p].filename = "" /\ procs[p].text # ""}

\* a request whose text parses as a JSON value that is no string, list or dict
BareScalar(p) ==
    /\ JsonDocument(procs[p].text).wellformed
    /\ JsonDocument(procs[p].text).value.t \notin {"str", "list", "dict"}

\* a text of 13 to 16 digits and nothing else
CardDigits(s) == Len(s) \in 13..16 /\ \A j \in 0..(Len(s) - 1) : CharAt(s, j) \in Digits

\* C30: pasted content without a file name is classified "json" when it parses
\* as JSON, else "xml" when it parses as XML, else "text"; a payload that is a
\* bare JSON scalar other than a string is classified "json" and comes back as
\* it was written, with an empty mapping and no error; and when that payload is
\* 13 to 16 digits, the text walker on the same characters returns a
\* CREDIT_CARD placeholder instead
C30_JsonBeforeXmlBeforeText ==
    \A p \in PastedDone :
        /\ procs[p].detected_type =
              (IF JsonDocument(procs[p].text).wellformed THEN "json"
               ELSE IF XmlDocument(procs[p].text).wellformed THEN "xml"
               ELSE "text")
        /\ BareScalar(p) =>
              /\ procs[p].detected_type = "json"
              /\ procs[p].anonymized_text = dumps(JsonDocument(procs[p].text).value, 0)
              /\ procs[p].anonymized_text = procs[p].text
              /\ procs[p].mappings = <<>>
              /\ procs[p].error = ""
        /\ (BareScalar(p) /\ CardDigits(procs[p].text)) =>
              \E r \in {anonymize_text(procs[p].text, Walking(PlaceholderManager),
                                       Pipeline(recognizer, cache.value))} :
                 /\ r.ret = "[CREDIT_CARD_1]"
                 /\ items(r.manager) = <<[key |-> <<"CREDIT_CARD", procs[p].text>>,
                                          ph |-> "[CREDIT_CARD_1]"]>>

\* a pasted 16-digit number was answered: classified "json", returned as it was
\* pasted, nothing in the mapping
C30_Witness ==
    \E p \in PastedDone :
        /\ procs[p].text = "4111111111111111"
        /\ procs[p].detected_type = "json"
        /\ procs[p].anonymized_text = "4111111111111111"
        /\ procs[p].mappings = <<>>
====
